---------------------------- MODULE Spec2Model ----------------------------
(***************************************************************************)
(* A model of qubesadmin/base.py: the response framing codec, the          *)
(* attribute proxy PropertyHolder with its property cache, and the named   *)
(* object directory WrapperObjectsCollection.                              *)
(*                                                                         *)
(* Byte strings and text strings are sequences of one-byte tokens; a token *)
(* is a one-character string, except NUL, which stands for the byte 0x00.  *)
(* Python values are records tagged by their type in field t.              *)
(***************************************************************************)
EXTENDS Integers, Sequences, FiniteSets, TLC

(***************************************************************************)
(* Bounds of the model.                                                    *)
(***************************************************************************)
\* integer property values range over 1..MaxInt
MaxInt == 1
\* longest byte string drawn as a raw response
MaxResp == 3

(***************************************************************************)
(* Python bytes / str primitives.                                          *)
(***************************************************************************)
NUL == "\\x00"
SP == " "
LF == "\n"

\* s[i:] of Python, 0-based i >= 0 (a slice never fails: it is clamped)
From(s, i) == IF i >= Len(s) THEN <<>> ELSE SubSeq(s, i + 1, Len(s))

\* s[:i] of Python, i >= 0
Upto(s, i) == IF i >= Len(s) THEN s ELSE SubSeq(s, 1, i)

\* s.startswith(p)
StartsWith(s, p) == Len(s) >= Len(p) /\ SubSeq(s, 1, Len(p)) = p

\* s.endswith(p)
EndsWith(s, p) == Len(s) >= Len(p) /\ SubSeq(s, Len(s) - Len(p) + 1, Len(s)) = p

\* index (1-based) of the first sep in s, 0 when there is none
RECURSIVE FindFrom(_, _, _)
FindFrom(s, sep, i) ==
    IF i > Len(s) THEN 0
    ELSE IF s[i] = sep THEN i
    ELSE FindFrom(s, sep, i + 1)

\* s.split(sep, maxsplit): maxsplit < 0 means no limit
RECURSIVE Split(_, _, _)
Split(s, sep, maxsplit) ==
    LET i == FindFrom(s, sep, 1)
    IN  IF maxsplit = 0 \/ i = 0 THEN <<s>>
        ELSE <<SubSeq(s, 1, i - 1)>> \o Split(From(s, i), sep, maxsplit - 1)

\* s.splitlines() for line feed terminated lines: no empty last line
RECURSIVE SplitLines(_)
SplitLines(s) ==
    LET i == FindFrom(s, LF, 1)
    IN  IF s = <<>> THEN <<>>
        ELSE IF i = 0 THEN <<s>>
        ELSE <<SubSeq(s, 1, i - 1)>> \o SplitLines(From(s, i))

\* the decimal digits, for str(int) and int(str)
Digits == <<"0", "1", "2", "3", "4", "5", "6", "7", "8", "9">>

DigitVal(c) == CHOOSE d \in 0..9 : Digits[d + 1] = c

IsDigit(c) == \E d \in 0..9 : Digits[d + 1] = c

\* str(n) for n >= 0
RECURSIVE IntToStr(_)
IntToStr(n) ==
    IF n < 10 THEN <<Digits[n + 1]>>
    ELSE IntToStr(n \div 10) \o <<Digits[(n % 10) + 1]>>

\* int(s) for a string of decimal digits
RECURSIVE StrToInt(_)
StrToInt(s) ==
    IF Len(s) = 1 THEN DigitVal(s[1])
    ELSE 10 * StrToInt(Upto(s, Len(s) - 1)) + DigitVal(s[Len(s)])

IsDecimal(s) == s # <<>> /\ \A i \in 1..Len(s) : IsDigit(s[i])

(***************************************************************************)
(* Python values and outcomes of a call.                                   *)
(***************************************************************************)
PyNone == [t |-> "None"]
PyInt(n) == [t |-> "int", v |-> n]
PyBool(b) == [t |-> "bool", v |-> b]
PyStr(s) == [t |-> "str", v |-> s]
\* a wrapper object: the name it was constructed with and which construction
PyObj(name, id) == [t |-> "obj", name |-> name, id |-> id]
\* qubesadmin.DEFAULT
DEFAULT == [t |-> "DEFAULT"]

Return(v) == [kind |-> "return", val |-> v]
Raise(e, a) == [kind |-> "raise", exc |-> e, arg |-> a]
Returned(r) == r.kind = "return"
Raised(r, e) == r.kind = "raise" /\ r.exc = e

(***************************************************************************)
(* Error kinds.  A class is denoted by its name as a TLA+ string; the wire *)
(* carries the name as bytes.                                              *)
(***************************************************************************)
\* a byte that is neither ASCII nor the start of a valid UTF-8 sequence
HIGH == "\\xff"

\* the exception classes of module qubesadmin.exc, by the attribute name
\* under which getattr finds them; QubesDaemonNoResponseError is the legacy
\* alias of QubesDaemonAccessError
ExcModule ==
    { <<<<"Q", "u", "b", "e", "s", "E", "x", "c", "e", "p", "t", "i", "o", "n">>, "QubesException">>,
      <<<<"Q", "u", "b", "e", "s", "V", "M", "N", "o", "t", "F", "o", "u", "n", "d", "E", "r", "r", "o", "r">>, "QubesVMNotFoundError">>,
      <<<<"Q", "u", "b", "e", "s", "D", "a", "e", "m", "o", "n", "A", "c", "c", "e", "s", "s", "E", "r", "r", "o", "r">>, "QubesDaemonAccessError">>,
      <<<<"Q", "u", "b", "e", "s", "D", "a", "e", "m", "o", "n", "N", "o", "R", "e", "s", "p", "o", "n", "s", "e", "E", "r", "r", "o", "r">>, "QubesDaemonAccessError">>,
      <<<<"Q", "u", "b", "e", "s", "D", "a", "e", "m", "o", "n", "C", "o", "m", "m", "u", "n", "i", "c", "a", "t", "i", "o", "n", "E", "r", "r", "o", "r">>, "QubesDaemonCommunicationError">>,
      <<<<"Q", "u", "b", "e", "s", "P", "r", "o", "p", "e", "r", "t", "y", "A", "c", "c", "e", "s", "s", "E", "r", "r", "o", "r">>, "QubesPropertyAccessError">> }

\* the names of __builtins__ the model distinguishes
Builtins ==
    { <<<<"K", "e", "y", "E", "r", "r", "o", "r">>, "KeyError">>,
      <<<<"V", "a", "l", "u", "e", "E", "r", "r", "o", "r">>, "ValueError">>,
      <<<<"S", "t", "o", "p", "I", "t", "e", "r", "a", "t", "i", "o", "n">>, "StopIteration">> }

\* base classes: the except clauses of the callers match subclasses too
Bases(e) ==
    CASE e = "QubesPropertyAccessError" ->
            {"QubesPropertyAccessError", "QubesDaemonAccessError",
             "QubesDaemonCommunicationError", "QubesException", "AttributeError"}
      [] e = "QubesDaemonAccessError" ->
            {"QubesDaemonAccessError", "QubesDaemonCommunicationError",
             "QubesException"}
      [] e = "QubesDaemonCommunicationError" ->
            {"QubesDaemonCommunicationError", "QubesException"}
      [] e = "QubesVMNotFoundError" -> {"QubesVMNotFoundError", "QubesException"}
      [] e = "QubesNoSuchPropertyError" ->
            {"QubesNoSuchPropertyError", "QubesException", "AttributeError"}
      [] e = "QubesValueError" -> {"QubesValueError", "QubesException", "ValueError"}
      [] e = "UnicodeDecodeError" -> {"UnicodeDecodeError", "ValueError"}
      [] OTHER -> {e}

\* except (classes): does an exception of class e match
Catches(classes, e) == Bases(e) \cap classes # {}

\* dict.get / getattr on a table of <<name, class>> pairs
Has(table, name) == \E p \in table : p[1] = name
Lookup(table, name) == (CHOOSE p \in table : p[1] = name)[2]

\* bytes.decode('ascii') and bytes.decode() fail alike on the byte HIGH
Decodable(b) == \A i \in 1..Len(b) : b[i] # HIGH

(***************************************************************************)
(* PropertyHolder._parse_qubesd_response                                   *)
(***************************************************************************)
OkMagic == <<"0", NUL>>
ErrMagic == <<"2", NUL>>

\* a lookup that never consults __builtins__
ExcClassOfNoBuiltins(exc_type) ==
    IF Has(ExcModule, exc_type) THEN Lookup(ExcModule, exc_type)
    ELSE "QubesException"

\* base.py:129-136, the class an exception type name stands for
ExcClassOf(exc_type) ==
    IF Has(ExcModule, exc_type) THEN Lookup(ExcModule, exc_type)
    ELSE IF EndsWith(exc_type, <<"E", "r", "r", "o", "r">>)
         THEN IF Has(Builtins, exc_type) THEN Lookup(Builtins, exc_type)
              ELSE "QubesException"
         ELSE "QubesException"

\* a decoder that keeps the field after the terminating NUL
KeepLast(parts) == parts

\* base.py:126, the argument list without its last field
DropLast(parts) == Upto(parts, Len(parts) - 1)

ParseErrorFrame(response_data) ==
    LET fields == Split(response_data, NUL, 4)
    IN  IF Len(fields) # 5
        THEN Raise("ValueError", <<>>)           \* the tuple does not unpack
        ELSE LET exc_type == fields[2]
                 format_string == fields[4]
                 args == DropLast(Split(fields[5], NUL, -1))
             IN  IF \E i \in 1..Len(args) : ~Decodable(args[i])
                 THEN Raise("UnicodeDecodeError", <<>>)
                 ELSE IF ~Decodable(format_string)
                 THEN Raise("UnicodeDecodeError", <<>>)
                 ELSE IF ~Decodable(exc_type)
                 THEN Raise("UnicodeDecodeError", <<>>)
                 ELSE Raise(ExcClassOf(exc_type), <<format_string>> \o args)

\* a decoder that slices one byte too far
PayloadOffByOne(response_data) == From(response_data, 3)

\* base.py:121, response_data[2:]
Payload(response_data) == From(response_data, 2)

_parse_qubesd_response(response_data) ==
    IF response_data = <<>>
    THEN Raise("QubesDaemonAccessError", <<>>)
    ELSE IF Upto(response_data, 2) = OkMagic
    THEN Return(Payload(response_data))
    ELSE IF Upto(response_data, 2) = ErrMagic
    THEN ParseErrorFrame(response_data)
    ELSE Raise("QubesDaemonCommunicationError", <<>>)

(***************************************************************************)
(* State.                                                                  *)
(***************************************************************************)
VARIABLES
    cache_enabled,      \* app.cache_enabled
    blind_mode,         \* app.blind_mode
    daemon,             \* the daemon's properties of the object behind the proxy
    daemon_names,       \* the daemon's directory of object names
    _properties_cache,  \* PropertyHolder._properties_cache
    _properties,        \* PropertyHolder._properties
    domains,            \* app.domains, a WrapperObjectsCollection
    labels,             \* app.labels, a WrapperObjectsCollection
    constructed,        \* per collection and name, the wrappers constructed so far
    _local_properties_set,  \* per class, cls._local_properties_set once computed
    instance_dict,      \* per class, the names in the __dict__ of its proxy
    _config,            \* Pool._config
    pool_info,          \* the daemon's configuration of the pool
    input,              \* the argument of a pure function under check
    lastOp,             \* the operation that ran last
    result,             \* what it returned or raised
    calls,              \* the transport calls it issued, in order
    history             \* facts about earlier operations the claims refer to

vars == <<cache_enabled, blind_mode, daemon, daemon_names, _properties_cache,
          _properties, domains, labels, constructed, _local_properties_set,
          instance_dict, _config, pool_info, input, lastOp, result, calls, history>>

(***************************************************************************)
(* The daemon behind the transport: two properties of the object, "a" of   *)
(* kind str and "b" of kind int.  "b" has no default: while it is unset    *)
(* the daemon serializes it with an empty value.                           *)
(***************************************************************************)
Props == <<(<<"a">>), (<<"b">>)>>
PropNames == {Props[i] : i \in 1..Len(Props)}

PropKind(p) == IF p = <<"a">> THEN <<"s", "t", "r">> ELSE <<"i", "n", "t">>

\* the raw value a Reset leaves: "a" defaults to "w", "b" to nothing
DefaultRaw(p) == IF p = <<"a">> THEN <<"w">> ELSE <<>>
HasDefault(p) == p = <<"a">>

\* the values Set accepts for a property
ValidRaw(p) ==
    IF p = <<"a">> THEN {<<>>, <<"w">>}
    ELSE {IntToStr(n) : n \in 1..MaxInt}

DaemonStates ==
    [PropNames -> [dflt : BOOLEAN, raw : {<<>>, <<"w">>} \cup {IntToStr(n) : n \in 1..MaxInt}]]

DaemonOk(d) ==
    \A p \in PropNames :
        IF d[p].dflt THEN d[p].raw = DefaultRaw(p) ELSE d[p].raw \in ValidRaw(p)

\* the method suffixes of the property API and the directory's list method
NoArg == [t |-> "None"]
Bytes(b) == [t |-> "bytes", v |-> b]
CallOf(method, arg, payload) == [method |-> method, arg |-> arg, payload |-> payload]

\* the daemon escapes a value for a GetAll line: backslash doubled, line feed
\* written as backslash n
RECURSIVE Escape(_)
Escape(v) ==
    IF v = <<>> THEN <<>>
    ELSE (IF v[1] = "\\" THEN <<"\\", "\\">>
          ELSE IF v[1] = LF THEN <<"\\", "n">>
          ELSE <<v[1]>>) \o Escape(Tail(v))

BoolStr(b) == IF b THEN <<"T", "r", "u", "e">> ELSE <<"F", "a", "l", "s", "e">>

\* default=<bool> type=<kind> <value>
SerializeProperty(d, p) ==
    <<"d", "e", "f", "a", "u", "l", "t", "=">> \o BoolStr(d[p].dflt) \o <<SP>>
    \o <<"t", "y", "p", "e", "=">> \o PropKind(p) \o <<SP>> \o d[p].raw

RECURSIVE GetAllPayload(_, _)
GetAllPayload(d, names) ==
    IF names = <<>> THEN <<>>
    ELSE names[1] \o <<SP>> \o Escape(SerializeProperty(d, names[1])) \o <<LF>>
         \o GetAllPayload(d, Tail(names))

RECURSIVE ListPayload(_)
ListPayload(names) ==
    IF names = <<>> THEN <<>>
    ELSE names[1] \o <<LF>> \o ListPayload(Tail(names))

\* the property lists the daemon may answer with: all properties, or none
\* when its policy filters the answer
VisibleLists == {Props, <<>>}

\* the errors a call may end with whatever the daemon holds; the daemon's own
\* answers add errors of other kinds
TransportErrors == {"QubesDaemonAccessError", "QubesVMNotFoundError"}

\* an outcome of a call: what qubesd_call returns or raises, and the daemon after
Outcome(res, d) == [res |-> res, d |-> d]

\* what the daemon answers when the call gets through
DaemonAnswers(d, call) ==
    LET m == call.method
        p == call.arg.v
        known == call.arg.t = "str" /\ call.arg.v \in PropNames
        unknown == {Outcome(Raise("QubesNoSuchPropertyError", <<>>), d)}
    IN  CASE m = "List" -> {Outcome(Return(ListPayload(l)), d) : l \in VisibleLists}
          [] m = "GetAll" -> {Outcome(Return(GetAllPayload(d, l)), d) : l \in VisibleLists}
          [] m = "Help" ->
                IF known THEN {Outcome(Return(<<"h", "e", "l", "p">>), d)} ELSE unknown
          [] m = "Get" ->
                IF known THEN {Outcome(Return(SerializeProperty(d, p)), d)} ELSE unknown
          [] m = "GetDefault" ->
                IF ~known THEN unknown
                ELSE IF HasDefault(p)
                THEN {Outcome(Return(<<"t", "y", "p", "e", "=">> \o PropKind(p)
                                     \o <<SP>> \o DefaultRaw(p)), d)}
                ELSE {Outcome(Return(<<>>), d)}
          [] m = "Set" ->
                IF ~known THEN unknown
                ELSE IF call.payload.t = "bytes" /\ call.payload.v \in ValidRaw(p)
                THEN {Outcome(Return(<<>>),
                              [d EXCEPT ![p] = [dflt |-> FALSE, raw |-> call.payload.v]])}
                ELSE {Outcome(Raise("QubesValueError", <<>>), d)}
          [] m = "Reset" ->
                IF ~known THEN unknown
                ELSE {Outcome(Return(<<>>),
                              [d EXCEPT ![p] = [dflt |-> TRUE, raw |-> DefaultRaw(p)]])}

\* PropertyHolder.qubesd_call: every outcome the transport may produce
qubesd_call(d, call) ==
    DaemonAnswers(d, call) \cup {Outcome(Raise(e, <<>>), d) : e \in TransportErrors}

(***************************************************************************)
(* The memory an operation works on: the proxy's fields, the two           *)
(* directories, the daemon, the calls issued so far and, once the          *)
(* operation has ended, what it returned or raised.  Field full says that  *)
(* the operation constructs more wrappers than the model counts, field     *)
(* filled that its GetAll call stored the entries of a non-empty answer,    *)
(* swallowed that it caught the failure of its GetAll call, field answer   *)
(* what its last call returned or raised; in cls the                       *)
(* class of the proxy it runs on, in sets and inst the reserved-name sets  *)
(* of the classes and the instance dictionaries of the proxies.            *)
(***************************************************************************)
Running == [kind |-> "running"]

\* the operation issued no call
NoCall == [kind |-> "no call"]

Mem(cache, props, dom, lab, made, d) ==
    [cache |-> cache, props |-> props, dom |-> dom, lab |-> lab, made |-> made,
     d |-> d, calls |-> <<>>, res |-> Running, full |-> FALSE, swallowed |-> FALSE,
     filled |-> FALSE, answer |-> NoCall, cls |-> "PropertyHolder", sets |-> _local_properties_set,
     inst |-> instance_dict]

\* the operation ends with r
End(M, r) == [M EXCEPT !.res = r]

\* a Python dict keeps its keys in insertion order: a sequence of <<key, value>>
DictHas(dict, k) == \E i \in 1..Len(dict) : dict[i][1] = k
DictGet(dict, k) == dict[CHOOSE i \in 1..Len(dict) : dict[i][1] = k][2]
DictPut(dict, k, v) ==
    IF DictHas(dict, k)
    THEN [i \in 1..Len(dict) |-> IF dict[i][1] = k THEN <<k, v>> ELSE dict[i]]
    ELSE Append(dict, <<k, v>>)
DictKeys(dict) == [i \in 1..Len(dict) |-> dict[i][1]]
DictPop(dict, k) == SelectSeq(dict, LAMBDA e : e[1] # k)

InList(list, x) == \E i \in 1..Len(list) : list[i] = x

(***************************************************************************)
(* WrapperObjectsCollection.get_blind                                      *)
(***************************************************************************)
\* how many wrappers the model lets a collection construct for one name
MaxMade == 2

\* the wrapper get_blind returns for item
BlindObject(coll, made, item) ==
    IF DictHas(coll._objects, item) THEN DictGet(coll._objects, item)
    ELSE PyObj(item, made[item] + 1)

\* the collection after get_blind(item)
BlindColl(coll, made, item) ==
    IF DictHas(coll._objects, item) THEN coll
    ELSE [coll EXCEPT !._objects = Append(@, <<item, PyObj(item, made[item] + 1)>>)]

\* the construction count after get_blind(item)
BlindMade(coll, made, item) ==
    IF DictHas(coll._objects, item) THEN made
    ELSE [made EXCEPT ![item] = @ + 1]

\* get_blind would construct one wrapper more than the model counts
BlindFull(coll, made, item) ==
    ~DictHas(coll._objects, item) /\ made[item] >= MaxMade

(***************************************************************************)
(* PropertyHolder._parse_type_value and _deserialize_property              *)
(***************************************************************************)
\* a bool decoding that takes every non-empty value for true
ParseBoolTruthy(value) == PyBool(value # <<>>)

\* base.py:311, value == "True"
ParseBool(value) == PyBool(value = <<"T", "r", "u", "e">>)

TypePrefix == <<"t", "y", "p", "e", "=">>

\* base.py:289-325; yields the memory (a directory may gain a wrapper) ended
\* with the parsed value or the error
_parse_type_value(M, prop_type, value) ==
    LET kind == Split(prop_type, "=", 1)[2]
    IN  IF ~Decodable(prop_type) THEN End(M, Raise("UnicodeDecodeError", <<>>))
        ELSE IF ~StartsWith(prop_type, TypePrefix)
        THEN End(M, Raise("QubesDaemonCommunicationError", <<>>))
        ELSE IF ~Decodable(value) THEN End(M, Raise("UnicodeDecodeError", <<>>))
        ELSE IF kind = <<"s", "t", "r">> THEN End(M, Return(PyStr(value)))
        ELSE IF kind = <<"b", "o", "o", "l">>
        THEN IF value = <<>> THEN End(M, Raise("AttributeError", <<>>))
             ELSE End(M, Return(ParseBool(value)))
        ELSE IF kind = <<"i", "n", "t">>
        THEN IF value = <<>> THEN End(M, Raise("AttributeError", <<>>))
             ELSE IF IsDecimal(value) THEN End(M, Return(PyInt(StrToInt(value))))
             ELSE End(M, Raise("ValueError", <<>>))
        ELSE IF kind = <<"v", "m">>
        THEN IF value = <<>> THEN End(M, Return(PyNone))
             ELSE [M EXCEPT !.res = Return(BlindObject(M.dom, M.made.domains, value)),
                            !.dom = BlindColl(M.dom, M.made.domains, value),
                            !.made.domains = BlindMade(M.dom, M.made.domains, value),
                            !.full = @ \/ BlindFull(M.dom, M.made.domains, value)]
        ELSE IF kind = <<"l", "a", "b", "e", "l">>
        THEN IF value = <<>> THEN End(M, Return(PyNone))
             ELSE [M EXCEPT !.res = Return(BlindObject(M.lab, M.made.labels, value)),
                            !.lab = BlindColl(M.lab, M.made.labels, value),
                            !.made.labels = BlindMade(M.lab, M.made.labels, value),
                            !.full = @ \/ BlindFull(M.lab, M.made.labels, value)]
        ELSE End(M, Raise("QubesDaemonCommunicationError", <<>>))

DefaultPrefix == <<"d", "e", "f", "a", "u", "l", "t", "=">>

\* base.py:275-287; ends with Return(<<is_default, value>>) or the error
_deserialize_property(M, api_response) ==
    LET parts == Split(api_response, SP, 2)
    IN  IF Len(parts) # 3 THEN End(M, Raise("ValueError", <<>>))
        ELSE IF ~StartsWith(parts[1], DefaultPrefix)
        THEN End(M, Raise("AssertionError", <<>>))
        ELSE IF ~Decodable(Split(parts[1], "=", -1)[2])
        THEN End(M, Raise("UnicodeDecodeError", <<>>))
        ELSE LET is_default == Split(parts[1], "=", -1)[2] = <<"T", "r", "u", "e">>
                 P == _parse_type_value(M, parts[2], parts[3])
             IN  IF Returned(P.res)
                 THEN End(P, Return([is_default |-> is_default, value |-> P.res.val]))
                 ELSE P

(***************************************************************************)
(* PropertyHolder._fetch_all_properties                                    *)
(***************************************************************************)
\* base.py:337-354, from position i on; Return(bytes) or the error raised
RECURSIVE unescapeFrom(_, _, _)
unescapeFrom(line, i, escaped) ==
    IF i > Len(line)
    THEN IF escaped THEN Raise("AssertionError", <<>>) ELSE Return(<<>>)
    ELSE LET char == line[i]
             rest == unescapeFrom(line, i + 1, FALSE)
             yield(c) == IF Returned(rest) THEN Return(<<c>> \o rest.val) ELSE rest
         IN  IF escaped
             THEN IF char \notin {"n", "\\"} THEN Raise("AssertionError", <<>>)
                  ELSE IF char = "n" THEN yield(LF)
                  ELSE Raise("ValueError", <<>>)
             ELSE IF char = "\\" THEN unescapeFrom(line, i + 1, TRUE)
             ELSE yield(char)

unescape(line) == unescapeFrom(line, 1, FALSE)

\* the memory after the call, which the transport answered with outcome o
Called(M, call, o) ==
    [M EXCEPT !.calls = Append(@, call), !.d = o.d,
              !.answer = o.res]

\* base.py:364-373, the loop over the lines of the response
RECURSIVE FetchLines(_, _)
FetchLines(M, lines) ==
    IF lines = <<>> THEN M
    ELSE LET line_bytes == unescape(lines[1])
             parts == Split(line_bytes.val, SP, 1)
             P == _deserialize_property(M, parts[2])
         IN  IF ~Returned(line_bytes) THEN End(M, line_bytes)
             ELSE IF Len(parts) # 2 THEN End(M, Raise("ValueError", <<>>))
             ELSE IF ~Decodable(parts[1]) THEN End(M, Raise("UnicodeDecodeError", <<>>))
             ELSE IF ~Returned(P.res) THEN P
             ELSE FetchLines(
                    [P EXCEPT !.res = Running,
                              !.cache = DictPut(@, parts[1],
                                                <<P.res.val.is_default, P.res.val.value>>)],
                    Tail(lines))

PyList(l) == [t |-> "list", v |-> l]

GetAllCall == CallOf("GetAll", NoArg, NoArg)

\* base.py:356-374, after the GetAll call was answered with outcome o
_fetch_all_properties(M, o) ==
    LET C == Called(M, GetAllCall, o)
        F == FetchLines(C, SplitLines(o.res.val))
    IN  IF ~Returned(o.res)
        THEN IF Catches({"QubesDaemonAccessError"}, o.res.exc)
             THEN [C EXCEPT !.swallowed = TRUE]
             ELSE End(C, o.res)
        ELSE IF F.res # Running THEN F
        ELSE [F EXCEPT !.props = PyList(DictKeys(F.cache)), !.filled = F.cache # <<>>]

\* a pre-fill that does not look whether the cache is empty
PrefillAlways(M) ==
    IF cache_enabled
    THEN {_fetch_all_properties(M, o) : o \in qubesd_call(M.d, GetAllCall)}
    ELSE {M}

\* a pre-fill that does not look whether caching is enabled
PrefillUnconditional(M) ==
    IF M.cache = <<>>
    THEN {_fetch_all_properties(M, o) : o \in qubesd_call(M.d, GetAllCall)}
    ELSE {M}

\* base.py:247-249 and 180-182: pre-fill the cache if enabled
Prefill(M) ==
    IF cache_enabled /\ M.cache = <<>>
    THEN {_fetch_all_properties(M, o) : o \in qubesd_call(M.d, GetAllCall)}
    ELSE {M}

(***************************************************************************)
(* PropertyHolder: the operations, each as the set of memories it may end  *)
(* in, one per way the transport may answer its calls.                     *)
(***************************************************************************)
PyStrArg(s) == [t |-> "str", v |-> s]

\* the class AttributeError stored as a value
AttributeErrorClass == [t |-> "type", name |-> "AttributeError"]

PropertyAccessError(item) == Raise("QubesPropertyAccessError", <<item>>)

\* a fetch that never stores what it fetched
GetFetchedUncached(M, item, o) ==
    LET C == Called(M, CallOf("Get", PyStrArg(item), NoArg), o)
        P == _deserialize_property(C, o.res.val)
    IN  IF ~Returned(o.res)
        THEN IF Catches({"QubesDaemonAccessError", "QubesVMNotFoundError"}, o.res.exc)
             THEN End(C, PropertyAccessError(item))
             ELSE End(C, o.res)
        ELSE IF ~Returned(P.res) THEN P
        ELSE IF P.res.val.value = AttributeErrorClass
        THEN End(P, Raise("AttributeError", <<item>>))
        ELSE End(P, Return(P.res.val.value))

\* a fetch that stores what it fetched whether or not caching is enabled
GetFetchedStored(M, item, o) ==
    LET C == Called(M, CallOf("Get", PyStrArg(item), NoArg), o)
        P == _deserialize_property(C, o.res.val)
        S == [P EXCEPT !.cache = DictPut(@, item,
                                         <<P.res.val.is_default, P.res.val.value>>)]
    IN  IF ~Returned(o.res)
        THEN IF Catches({"QubesDaemonAccessError", "QubesVMNotFoundError"}, o.res.exc)
             THEN End(C, PropertyAccessError(item))
             ELSE End(C, o.res)
        ELSE IF ~Returned(P.res) THEN P
        ELSE IF P.res.val.value = AttributeErrorClass
        THEN End(S, Raise("AttributeError", <<item>>))
        ELSE End(S, Return(P.res.val.value))

\* base.py:259-273, after the Get call was answered with outcome o
GetFetched(M, item, o) ==
    LET C == Called(M, CallOf("Get", PyStrArg(item), NoArg), o)
        P == _deserialize_property(C, o.res.val)
        S == IF cache_enabled
             THEN [P EXCEPT !.cache = DictPut(@, item,
                                              <<P.res.val.is_default, P.res.val.value>>)]
             ELSE P
    IN  IF ~Returned(o.res)
        THEN IF Catches({"QubesDaemonAccessError", "QubesVMNotFoundError"}, o.res.exc)
             THEN End(C, PropertyAccessError(item))
             ELSE End(C, o.res)
        ELSE IF ~Returned(P.res) THEN P
        ELSE IF P.res.val.value = AttributeErrorClass
        THEN End(S, Raise("AttributeError", <<item>>))
        ELSE End(S, Return(P.res.val.value))

\* a lookup that does not consult the memoized property list
GetLookupUnlisted(M, item) ==
    IF M.res # Running THEN {M}
    ELSE IF DictHas(M.cache, item)
    THEN IF DictGet(M.cache, item)[2] = AttributeErrorClass
         THEN {End(M, Raise("AttributeError", <<item>>))}
         ELSE {End(M, Return(DictGet(M.cache, item)[2]))}
    ELSE {GetFetched(M, item, o) :
            o \in qubesd_call(M.d, CallOf("Get", PyStrArg(item), NoArg))}

\* base.py:250-273, after the pre-fill
GetLookup(M, item) ==
    IF M.res # Running THEN {M}
    ELSE IF DictHas(M.cache, item)
    THEN IF DictGet(M.cache, item)[2] = AttributeErrorClass
         THEN {End(M, Raise("AttributeError", <<item>>))}
         ELSE {End(M, Return(DictGet(M.cache, item)[2]))}
    ELSE IF M.props # PyNone /\ ~InList(M.props.v, item)
    THEN {End(M, Raise("AttributeError", <<item>>))}
    ELSE {GetFetched(M, item, o) :
            o \in qubesd_call(M.d, CallOf("Get", PyStrArg(item), NoArg))}

\* PropertyHolder.__getattr__, base.py:244-273
__getattr__(M, item) ==
    IF StartsWith(item, <<"_">>) THEN {End(M, Raise("AttributeError", <<item>>))}
    ELSE UNION {GetLookup(P, item) : P \in Prefill(M)}

\* base.py:189-201, after the Get call was answered with outcome o
IsDefaultFetched(M, item, o) ==
    LET C == Called(M, CallOf("Get", PyStrArg(item), NoArg), o)
        P == _deserialize_property(C, o.res.val)
        S == IF cache_enabled
             THEN [P EXCEPT !.cache = DictPut(@, item,
                                              <<P.res.val.is_default, P.res.val.value>>)]
             ELSE P
    IN  IF ~Returned(o.res)
        THEN IF Catches({"QubesDaemonAccessError", "QubesVMNotFoundError"}, o.res.exc)
             THEN End(C, PropertyAccessError(item))
             ELSE End(C, o.res)
        ELSE IF ~Returned(P.res) THEN P
        ELSE End(S, Return(PyBool(P.res.val.is_default)))

\* base.py:183-201, after the pre-fill
IsDefaultLookup(M, item) ==
    IF M.res # Running THEN {M}
    ELSE IF DictHas(M.cache, item)
    THEN {End(M, Return(PyBool(DictGet(M.cache, item)[1])))}
    ELSE IF M.props # PyNone /\ ~InList(M.props.v, item)
    THEN {End(M, Raise("AttributeError", <<item>>))}
    ELSE {IsDefaultFetched(M, item, o) :
            o \in qubesd_call(M.d, CallOf("Get", PyStrArg(item), NoArg))}

\* PropertyHolder.property_is_default, base.py:171-201
property_is_default(M, item) ==
    IF StartsWith(item, <<"_">>) THEN {End(M, Raise("AttributeError", <<item>>))}
    ELSE UNION {IsDefaultLookup(P, item) : P \in Prefill(M)}

\* PropertyHolder.property_get_default, base.py:203-224
\* ' has no default', base.py:220
HasNoDefault ==
    <<SP, "h", "a", "s", SP, "n", "o", SP, "d", "e", "f", "a", "u", "l", "t">>

GetDefaultFetched(M, item, o) ==
    LET C == Called(M, CallOf("GetDefault", PyStrArg(item), NoArg), o)
        parts == Split(o.res.val, SP, 1)
    IN  IF ~Returned(o.res)
        THEN IF Catches({"QubesDaemonAccessError", "QubesVMNotFoundError"}, o.res.exc)
             THEN End(C, PropertyAccessError(item))
             ELSE End(C, o.res)
        ELSE IF o.res.val = <<>> THEN End(C, Raise("AttributeError", <<item \o HasNoDefault>>))
        ELSE IF Len(parts) # 2 THEN End(C, Raise("ValueError", <<>>))
        ELSE _parse_type_value(C, parts[1], parts[2])

\* a get_default that answers from the cache when it holds the property
property_get_default_cached(M, item) ==
    IF StartsWith(item, <<"_">>) THEN {End(M, Raise("AttributeError", <<item>>))}
    ELSE IF DictHas(M.cache, item) THEN {End(M, Return(DictGet(M.cache, item)[2]))}
    ELSE {GetDefaultFetched(M, item, o) :
            o \in qubesd_call(M.d, CallOf("GetDefault", PyStrArg(item), NoArg))}

property_get_default(M, item) ==
    IF StartsWith(item, <<"_">>) THEN {End(M, Raise("AttributeError", <<item>>))}
    ELSE {GetDefaultFetched(M, item, o) :
            o \in qubesd_call(M.d, CallOf("GetDefault", PyStrArg(item), NoArg))}

(***************************************************************************)
(* Classes: PropertyHolder and a subclass of it.  Of the names their       *)
(* bodies define the model keeps one each; computing the reserved-name set *)
(* of a class adds the name _local_properties_set to its dictionary.       *)
(***************************************************************************)
Classes == {"PropertyHolder", "Sub"}

\* cls.__mro__, without object
MRO(cls) == IF cls = "Sub" THEN <<"Sub", "PropertyHolder">> ELSE <<"PropertyHolder">>

\* the names defined in the body of the class
ClassAttrs(cls) ==
    IF cls = "Sub" THEN {<<"k">>}
    ELSE {<<"c", "l", "e", "a", "r", "_", "c", "a", "c", "h", "e">>}

MemoName ==
    <<"_", "l", "o", "c", "a", "l", "_", "p", "r", "o", "p", "e", "r", "t", "i", "e", "s",
      "_", "s", "e", "t">>

PySet(s) == [t |-> "set", v |-> s]

\* class_.__dict__ given the sets computed so far
ClassDict(sets, cls) ==
    ClassAttrs(cls) \cup (IF sets[cls] # PyNone THEN {MemoName} ELSE {})

\* base.py:383-386, the keys of the dictionaries along the MRO
Collected(sets, cls) ==
    UNION {ClassDict(sets, MRO(cls)[i]) : i \in 1..Len(MRO(cls))}

\* a _local_properties that takes the set of a base class for its own
_local_properties_inherited(M) ==
    IF \A i \in 1..Len(MRO(M.cls)) : M.sets[MRO(M.cls)[i]] = PyNone
    THEN [M EXCEPT !.sets[M.cls] = PySet(Collected(M.sets, M.cls))]
    ELSE LET i == CHOOSE j \in 1..Len(MRO(M.cls)) :
                    /\ M.sets[MRO(M.cls)[j]] # PyNone
                    /\ \A l \in 1..(j - 1) : M.sets[MRO(M.cls)[l]] = PyNone
         IN  [M EXCEPT !.sets[M.cls] = M.sets[MRO(M.cls)[i]]]

\* PropertyHolder._local_properties, base.py:376-389: the memory after the
\* call; the set it returns is that of the class of the proxy
_local_properties(M) ==
    IF M.sets[M.cls] = PyNone
    THEN [M EXCEPT !.sets[M.cls] = PySet(Collected(M.sets, M.cls))]
    ELSE M

\* object.__setattr__, base.py:393
StoredLocally(M, key) == End([M EXCEPT !.inst[M.cls] = @ \cup {key}], Return(PyNone))

\* object.__delattr__, base.py:421
DeletedLocally(M, name) ==
    IF name \in M.inst[M.cls]
    THEN End([M EXCEPT !.inst[M.cls] = @ \ {name}], Return(PyNone))
    ELSE End(M, Raise("AttributeError", <<name>>))

\* str(value), base.py:414
Str(value) ==
    CASE value.t = "int" -> IntToStr(value.v)
      [] value.t = "bool" -> BoolStr(value.v)
      [] value.t = "str" -> value.v
      [] value.t = "None" -> <<"N", "o", "n", "e">>

\* a payload that leaves None to str
SetPayloadUnblanked(value) ==
    Bytes(Str(IF value.t = "obj" THEN PyStr(value.name) ELSE value))

\* base.py:405-414, the payload of the Set call
SetPayload(value) ==
    LET named == IF value.t = "obj" THEN PyStr(value.name) ELSE value
        blank == IF named = PyNone THEN PyStr(<<>>) ELSE named
    IN  Bytes(Str(blank))

\* base.py:394-417, the call a remote set issues
SetCall(key, value) ==
    IF value = DEFAULT THEN CallOf("Reset", PyStrArg(key), NoArg)
    ELSE CallOf("Set", PyStrArg(key), SetPayload(value))

\* base.py:395-417 and 422-430, after the call was answered with outcome o
Written(M, key, call, o) ==
    LET C == Called(M, call, o)
    IN  IF ~Returned(o.res)
        THEN IF Catches({"QubesDaemonAccessError", "QubesVMNotFoundError"}, o.res.exc)
             THEN End(C, PropertyAccessError(key))
             ELSE End(C, o.res)
        ELSE End(C, Return(PyNone))

\* PropertyHolder.__setattr__, base.py:391-417
__setattr__(M, key, value) ==
    LET L == _local_properties(M)
    IN  IF StartsWith(key, <<"_">>) THEN {StoredLocally(M, key)}
        ELSE IF key \in L.sets[L.cls].v THEN {StoredLocally(L, key)}
        ELSE {Written(L, key, SetCall(key, value), o) :
                o \in qubesd_call(L.d, SetCall(key, value))}

\* a __delattr__ that sends every deletion to the daemon
__delattr___remote(M, name) ==
    {Written(M, name, CallOf("Reset", PyStrArg(name), NoArg), o) :
        o \in qubesd_call(M.d, CallOf("Reset", PyStrArg(name), NoArg))}

\* PropertyHolder.__delattr__, base.py:419-430
__delattr__(M, name) ==
    LET L == _local_properties(M)
    IN  IF StartsWith(name, <<"_">>) THEN {DeletedLocally(M, name)}
        ELSE IF name \in L.sets[L.cls].v THEN {DeletedLocally(L, name)}
        ELSE {Written(L, name, CallOf("Reset", PyStrArg(name), NoArg), o) :
                o \in qubesd_call(L.d, CallOf("Reset", PyStrArg(name), NoArg))}

\* base.py:149-154, after the List call was answered with outcome o
Listed(M, o) ==
    LET C == Called(M, CallOf("List", NoArg, NoArg), o)
    IN  IF ~Returned(o.res) THEN End(C, o.res)
        ELSE IF ~Decodable(o.res.val) THEN End(C, Raise("UnicodeDecodeError", <<>>))
        ELSE End([C EXCEPT !.props = PyList(SplitLines(o.res.val))],
                 Return(PyList(SplitLines(o.res.val))))

\* a property_list that asks the daemon every time
property_list_fresh(M) ==
    {Listed(M, o) : o \in qubesd_call(M.d, CallOf("List", NoArg, NoArg))}

\* PropertyHolder.property_list, base.py:142-156
property_list(M) ==
    IF M.props = PyNone
    THEN {Listed(M, o) : o \in qubesd_call(M.d, CallOf("List", NoArg, NoArg))}
    ELSE {End(M, Return(M.props))}

(***************************************************************************)
(* clone_properties reads from a second proxy, src.  Of src the model      *)
(* keeps its daemon; src is fresh, and the calls it issues are recorded    *)
(* with a field dest that sets them apart from the calls of self, and a    *)
(* field read, what the getattr that issued them ended with.               *)
(***************************************************************************)
OnSource(call, res) ==
    [method |-> call.method, arg |-> call.arg, payload |-> call.payload, dest |-> "src",
     read |-> res]

\* an except clause that catches nothing
SkippedNever(exc) == FALSE

\* base.py:241, except AttributeError
Skipped(exc) == Catches({"AttributeError"}, exc)

\* the memory getattr(src, prop) runs on
SourceMem(M, src) ==
    [M EXCEPT !.cache = <<>>, !.props = PyNone, !.d = src.d, !.calls = <<>>]

\* the memory of self once getattr(src, prop) has ended in G
AfterRead(M, G) ==
    [M EXCEPT !.calls = @ \o [i \in 1..Len(G.calls) |-> OnSource(G.calls[i], G.res)],
              !.answer = G.answer]

\* base.py:238-242, the loop over the names
RECURSIVE CloneLoop(_, _, _)
CloneLoop(M, src, proplist) ==
    IF proplist = <<>> THEN {End(M, Return(PyNone))}
    ELSE UNION {
        IF ~Returned(G.res)
        THEN IF Skipped(G.res.exc)
             THEN CloneLoop(AfterRead(M, G), src, Tail(proplist))
             ELSE {End(AfterRead(M, G), G.res)}
        ELSE UNION {
            IF Returned(W.res) \/ Skipped(W.res.exc)
            THEN CloneLoop([W EXCEPT !.res = Running], src, Tail(proplist))
            ELSE {W} :
            W \in __setattr__(AfterRead(M, G), proplist[1], G.res.val)} :
        G \in __getattr__(SourceMem(M, src), proplist[1])}

\* PropertyHolder.clone_properties, base.py:226-242
clone_properties(M, src, proplist) ==
    IF proplist = PyNone
    THEN UNION {IF Returned(L.res)
                THEN CloneLoop([L EXCEPT !.res = Running], src, L.res.val.v)
                ELSE {L} :
                L \in property_list(M)}
    ELSE CloneLoop(M, src, proplist.v)

\* PropertyHolder.property_help, base.py:158-169
Helped(M, name, o) ==
    LET C == Called(M, CallOf("Help", PyStrArg(name), NoArg), o)
    IN  IF ~Returned(o.res) THEN End(C, o.res)
        ELSE IF ~Decodable(o.res.val) THEN End(C, Raise("UnicodeDecodeError", <<>>))
        ELSE End(C, Return(PyStr(o.res.val)))

property_help(M, name) ==
    {Helped(M, name, o) : o \in qubesd_call(M.d, CallOf("Help", PyStrArg(name), NoArg))}

\* a clear_cache that leaves the cache as it is
clear_cache_kept(M) == {End(M, Return(PyNone))}

\* PropertyHolder.clear_cache, base.py:64-68
clear_cache(M) == {End([M EXCEPT !.cache = <<>>], Return(PyNone))}

(***************************************************************************)
(* WrapperObjectsCollection, as app.labels.  The operations work on the    *)
(* field lab of the memory; nm is the daemon's current name list.          *)
(***************************************************************************)
ListMethodCall == CallOf("admin.label.List", NoArg, NoArg)

\* what the transport may answer to the directory's List call: the daemon's
\* list, one name per line; the same cut short of its last byte; for a
\* directory without names also a lone terminator; an error
list_call(nm) ==
    {Return(ListPayload(nm)),
     Return(DropLast(ListPayload(nm)))}
    \cup (IF nm = <<>> THEN {Return(<<LF>>)} ELSE {})
    \cup {Raise(e, <<>>) : e \in TransportErrors}

\* a refresh that evicts nothing
SurvivingAll(objects, names) == objects

\* base.py:472-476, the cached wrappers whose name is still listed
Surviving(objects, names) ==
    SelectSeq(objects, LAMBDA e : InList(names, e[2].name))

\* a refresh that takes the response without looking at its last byte
RefreshedUnchecked(M, r) ==
    LET C == [M EXCEPT !.calls = Append(@, ListMethodCall), !.answer = r]
        names == SplitLines(DropLast(r.val))
    IN  IF ~Returned(r) THEN End(C, r)
        ELSE [C EXCEPT !.lab = [_names_list |-> PyList(names),
                                _objects |-> Surviving(@._objects, names)]]

\* base.py:467-476, after the List call was answered with r
Refreshed(M, r) ==
    LET C == [M EXCEPT !.calls = Append(@, ListMethodCall),
                       !.answer = r]
        list_data == r.val
        names == SplitLines(DropLast(list_data))
    IN  IF ~Returned(r) THEN End(C, r)
        ELSE IF ~Decodable(list_data) THEN End(C, Raise("UnicodeDecodeError", <<>>))
        ELSE IF list_data = <<>> THEN End(C, Raise("IndexError", <<>>))
        ELSE IF list_data[Len(list_data)] # LF THEN End(C, Raise("AssertionError", <<>>))
        ELSE [C EXCEPT !.lab = [_names_list |-> PyList(names),
                                _objects |-> Surviving(@._objects, names)]]

\* a refresh that asks the daemon whatever is cached
refresh_cache_always(M, force, nm) == {Refreshed(M, r) : r \in list_call(nm)}

\* a refresh that takes an empty name list for none
refresh_cache_truthy(M, force, nm) ==
    IF ~force /\ M.lab._names_list # PyNone /\ M.lab._names_list.v # <<>> THEN {M}
    ELSE {Refreshed(M, r) : r \in list_call(nm)}

\* WrapperObjectsCollection.refresh_cache, base.py:463-476; the memory is
\* left running unless the refresh raised
refresh_cache(M, force, nm) ==
    IF ~force /\ M.lab._names_list # PyNone THEN {M}
    ELSE {Refreshed(M, r) : r \in list_call(nm)}

\* the memory of a refresh that did not raise, ended with r
Ended(M, r) == IF M.res # Running THEN M ELSE End(M, r)

\* a __contains__ that forces the refresh
__contains___forced(M, item, nm) ==
    {IF R.res # Running THEN R
     ELSE End(R, Return(PyBool(InList(R.lab._names_list.v, item)))) :
        R \in refresh_cache(M, TRUE, nm)}

\* WrapperObjectsCollection.__contains__, base.py:492-495
__contains__(M, item, nm) ==
    {IF R.res # Running THEN R
     ELSE End(R, Return(PyBool(InList(R.lab._names_list.v, item)))) :
        R \in refresh_cache(M, FALSE, nm)}

\* WrapperObjectsCollection.keys, base.py:502-506
keys(M, nm) ==
    {IF R.res # Running THEN R ELSE End(R, Return(R.lab._names_list)) :
        R \in refresh_cache(M, FALSE, nm)}

\* a get_blind that constructs a wrapper at every call
get_blind_fresh(M, item) ==
    [M EXCEPT !.res = Return(PyObj(item, M.made.labels[item] + 1)),
              !.lab._objects = Append(DictPop(@, item),
                                      <<item, PyObj(item, M.made.labels[item] + 1)>>),
              !.made.labels[item] = @ + 1,
              !.full = @ \/ M.made.labels[item] >= MaxMade]

\* WrapperObjectsCollection.get_blind, base.py:483-490
get_blind(M, item) ==
    [M EXCEPT !.res = Return(BlindObject(M.lab, M.made.labels, item)),
              !.lab = BlindColl(M.lab, M.made.labels, item),
              !.made.labels = BlindMade(M.lab, M.made.labels, item),
              !.full = @ \/ BlindFull(M.lab, M.made.labels, item)]

\* a __getitem__ that hands out a wrapper whatever the list holds
__getitem___unchecked(M, item, nm) ==
    IF blind_mode THEN {get_blind(M, item)}
    ELSE {IF ~Returned(R.res) THEN R ELSE get_blind(R, item) :
            R \in __contains__(M, item, nm)}

\* a __getitem__ that checks the list in blind mode too
__getitem___validated(M, item, nm) ==
    {IF ~Returned(R.res) THEN R
     ELSE IF ~R.res.val.v THEN End(R, Raise("KeyError", <<item>>))
     ELSE get_blind(R, item) :
        R \in __contains__(M, item, nm)}

\* WrapperObjectsCollection.__getitem__, base.py:478-481
__getitem__(M, item, nm) ==
    IF blind_mode THEN {get_blind(M, item)}
    ELSE {IF ~Returned(R.res) THEN R
          ELSE IF ~R.res.val.v THEN End(R, Raise("KeyError", <<item>>))
          ELSE get_blind(R, item) :
            R \in __contains__(M, item, nm)}

\* WrapperObjectsCollection.__iter__, base.py:497-500: the names it yields
__iter__(M, nm) ==
    {IF R.res # Running THEN R ELSE End(R, Return(R.lab._names_list)) :
        R \in refresh_cache(M, FALSE, nm)}

\* base.py:512 and 518, get_blind(key) for key in self._names_list
RECURSIVE BlindEach(_, _, _)
BlindEach(M, names, got) ==
    IF names = <<>> THEN End(M, Return(PyList(got)))
    ELSE LET G == get_blind(M, names[1])
         IN  BlindEach([G EXCEPT !.res = Running], Tail(names),
                       Append(got, G.res.val))

\* WrapperObjectsCollection.values, base.py:514-518
values(M, nm) ==
    {IF R.res # Running THEN R ELSE BlindEach(R, R.lab._names_list.v, <<>>) :
        R \in refresh_cache(M, FALSE, nm)}

\* WrapperObjectsCollection.items, base.py:508-512
items(M, nm) ==
    {IF ~Returned(V.res) THEN V
     ELSE End(V, Return(PyList([i \in 1..Len(V.res.val.v) |->
                                    <<V.res.val.v[i].name, V.res.val.v[i]>>]))) :
        V \in values(M, nm)}

\* a clear_cache that drops the wrappers with the names
coll_clear_cache_all(M, invalidate_name) ==
    End([M EXCEPT !.lab = [_names_list |-> PyNone, _objects |-> <<>>]], Return(PyNone))

\* WrapperObjectsCollection.clear_cache, base.py:454-461; invalidate_name is
\* PyNone or a name
coll_clear_cache(M, invalidate_name) ==
    LET dropped == [M EXCEPT !.lab._names_list = PyNone]
    IN  IF invalidate_name # PyNone /\ invalidate_name.v # <<>>
        THEN End([dropped EXCEPT !.lab._objects = DictPop(@, invalidate_name.v)],
                 Return(PyNone))
        ELSE End(dropped, Return(PyNone))

(***************************************************************************)
(* The names and values the operations are called with.                    *)
(***************************************************************************)
\* property names asked for: the daemon's, one it does not know, a private one
Items == PropNames \cup {<<"c">>, <<"_", "x">>}

\* the names written or deleted that reach the daemon
RemoteKeys == {k \in Items : ~StartsWith(k, <<"_">>)}

VMNames == {<<"w">>}
LabelNames == {<<"r">>, <<"g">>}
\* names looked up in the directory: the label names and one never listed
LabelItems == LabelNames \cup {<<"z">>}

\* a QubesVM object held by the caller
SomeVM == PyObj(<<"w">>, 1)

SetValues == {DEFAULT, PyNone, SomeVM} \cup {PyInt(n) : n \in 1..MaxInt}

\* the name lists the daemon's directory may hold
NameLists == {<<>>, <<(<<"r">>)>>, <<(<<"g">>)>>, <<(<<"r">>), (<<"g">>)>>}

(***************************************************************************)
(* History kept for the claims.  A behaviour records one aspect of it, the *)
(* one named by field watch and chosen in the initial state; the fields of *)
(* the other aspects keep their initial value.                             *)
(*   bulk: bulk_failed, a GetAll failure was swallowed since the last      *)
(*         clear_cache; before, whether that was so and whether the cache  *)
(*         was empty when the last operation began                         *)
(*   got:  got, the value the last get of each property returned since the *)
(*         last clear_cache, set or delete; repeat, that value when the    *)
(*         last operation was a get of a property that had one             *)
(*   list: list_calls, the property List calls issued so far; first_list,  *)
(*         the list the first property_list() returned; memo, _properties  *)
(*         when the last operation began                                   *)
(*   prev: prev, the last operation; after, the operation before it when   *)
(*         the last one was a get or is_default that followed a            *)
(*         clear_cache or a set or delete of the same property             *)
(*   epoch: refreshed, the directory's List call was answered with a       *)
(*         well-formed list since construction or the last clear_cache of  *)
(*         the directory; read_calls, the List calls the reading           *)
(*         operations of the directory issued since the last invalidation  *)
(*         (clear_cache, forced refresh); epoch_ok, the List calls         *)
(*         answered with a well-formed list since then, the one of a       *)
(*         forced refresh not counted; both counted up to MaxEpochCalls    *)
(*   bulk: also prefetched, a GetAll call was answered and its entries, at *)
(*         least one, stored since the last clear_cache                    *)
(*   got:  also absent, the properties whose latest get fetched a value    *)
(*         that decoded as absent, with no clear_cache, set or delete      *)
(*         since; and again, whether the get that ran is of one of them    *)
(* A behaviour of the storage objects records in token what the CloneFrom  *)
(* call of the last clone was answered with, in prev a set of the pool     *)
(* that returned and in after that the read that ran is the first          *)
(* operation since.                                                        *)
(* Every behaviour records in swallowed whether the last operation         *)
(* swallowed a GetAll failure, and in answer what the last call of the     *)
(* last operation returned or raised.  What is recorded about the last     *)
(* operation is dropped with its result.                                   *)
(***************************************************************************)
Watches == {"bulk", "got", "list", "prev"}

\* List calls of the directory the model counts between two invalidations
MaxEpochCalls == 2

Least(m, n) == IF m < n THEN m ELSE n

\* a directory list as the wire format has it: ASCII, ended by a line feed
WellFormed(list_data) ==
    /\ Decodable(list_data)
    /\ list_data # <<>>
    /\ list_data[Len(list_data)] = LF

\* the operation issued the directory's List call
ListedNames(F) == \E i \in 1..Len(F.calls) : F.calls[i] = ListMethodCall

\* and was answered with a well-formed list
ListedWell(F) ==
    ListedNames(F) /\ F.answer.kind = "return" /\ WellFormed(F.answer.val)

\* the operations that invalidate the name list, and those that read it
Invalidates(op, value) ==
    op = "coll_clear_cache" \/ (op = "refresh" /\ value = PyBool(TRUE))

ReadOps == {"contains", "iter", "keys", "items", "values", "getitem"}

\* an operation, as far as the claims tell operations apart: a remote set or
\* delete that returned, with its property and whether the cache held the
\* property; clear_cache, and whether the cache held anything; other
Prev(op, item, cached) == [op |-> op, item |-> item, cached |-> cached]

Other == Prev("other", <<>>, FALSE)

Summary(op, item, F) ==
    IF op \in {"set", "delete"} /\ Returned(F.res) /\ F.calls # <<>>
    THEN Prev(op, item, DictHas(_properties_cache, item))
    ELSE IF op = "clear_cache" THEN Prev(op, <<>>, _properties_cache # <<>>)
    ELSE Other

Follows(h, op, item) ==
    IF op \in {"get", "is_default"}
       /\ (h.prev.op = "clear_cache" \/ (h.prev.op \in {"set", "delete"} /\ h.prev.item = item))
    THEN h.prev
    ELSE Other

Nothing == [t |-> "nothing"]

Before(failed, empty) == [failed |-> failed, empty |-> empty]

\* property List calls the model follows a proxy for
MaxListCalls == 2

NoHistory(watch) ==
    [watch |-> watch,
     bulk_failed |-> FALSE,
     got |-> [p \in PropNames |-> Nothing],
     list_calls |-> 0,
     first_list |-> Nothing,
     repeat |-> Nothing,
     prev |-> Other,
     after |-> Other,
     before |-> Before(FALSE, FALSE),
     memo |-> Nothing,
     swallowed |-> FALSE,
     answer |-> NoCall,
     refreshed |-> FALSE,
     read_calls |-> 0,
     epoch_ok |-> 0,
     absent |-> {},
     again |-> FALSE,
     prefetched |-> FALSE,
     token |-> Nothing]

\* the history once the result of the last operation is dropped
Dropped(h) ==
    [h EXCEPT !.repeat = Nothing, !.after = Other, !.before = Before(FALSE, FALSE),
              !.memo = Nothing, !.swallowed = FALSE, !.answer = NoCall,
              !.again = FALSE, !.token = Nothing]

CountCalls(cs, method) == Cardinality({i \in 1..Len(cs) : cs[i].method = method})

\* with caching enabled, the get of item fetched a value that decoded as
\* absent: the daemon holds no value for it, the last call of the get was
\* answered and _parse_type_value raised its AttributeError
DecodedAbsent(op, item, F) ==
    /\ cache_enabled
    /\ op = "get"
    /\ item \in PropNames
    /\ PropKind(item) = <<"i", "n", "t">>
    /\ F.d[item].raw = <<>>
    /\ F.calls # <<>>
    /\ Returned(F.answer)
    /\ F.res = Raise("AttributeError", <<>>)

Recorded(h, op, item, value, F) ==
    [watch |-> h.watch,
     bulk_failed |-> IF h.watch # "bulk" THEN h.bulk_failed
                     ELSE IF op = "clear_cache" THEN FALSE
                     ELSE h.bulk_failed \/ F.swallowed,
     got |-> IF h.watch # "got" THEN h.got
             ELSE IF op \in {"clear_cache", "set", "delete"}
             THEN [p \in PropNames |-> Nothing]
             ELSE IF op = "get" /\ Returned(F.res) /\ item \in PropNames
             THEN [h.got EXCEPT ![item] = F.res.val]
             ELSE h.got,
     list_calls |-> IF h.watch # "list" THEN h.list_calls
                    ELSE h.list_calls + CountCalls(F.calls, "List"),
     first_list |-> IF h.watch = "list" /\ op = "property_list" /\ Returned(F.res)
                       /\ h.first_list = Nothing
                    THEN F.res.val
                    ELSE h.first_list,
     repeat |-> IF h.watch = "got" /\ op = "get" /\ item \in PropNames
                THEN h.got[item]
                ELSE Nothing,
     prev |-> IF h.watch = "prev" THEN Summary(op, item, F) ELSE h.prev,
     after |-> IF h.watch = "prev" THEN Follows(h, op, item) ELSE h.after,
     before |-> IF h.watch = "bulk"
                THEN Before(h.bulk_failed, _properties_cache = <<>>)
                ELSE h.before,
     memo |-> IF h.watch = "list" THEN _properties ELSE h.memo,
     swallowed |-> F.swallowed,
     answer |-> F.answer,
     refreshed |-> IF h.watch # "epoch" THEN h.refreshed
                   ELSE IF op = "coll_clear_cache" THEN FALSE
                   ELSE h.refreshed \/ ListedWell(F),
     read_calls |-> IF h.watch # "epoch" THEN h.read_calls
                    ELSE IF Invalidates(op, value) THEN 0
                    ELSE IF op \in ReadOps /\ ListedNames(F)
                    THEN Least(h.read_calls + 1, MaxEpochCalls)
                    ELSE h.read_calls,
     epoch_ok |-> IF h.watch # "epoch" THEN h.epoch_ok
                  ELSE IF Invalidates(op, value) THEN 0
                  ELSE IF ListedWell(F) THEN Least(h.epoch_ok + 1, MaxEpochCalls)
                  ELSE h.epoch_ok,
     absent |-> IF h.watch # "got" THEN h.absent
                ELSE IF op \in {"clear_cache", "set", "delete"} THEN {}
                ELSE IF DecodedAbsent(op, item, F) THEN h.absent \cup {item}
                ELSE IF op = "get" THEN h.absent \ {item}
                ELSE h.absent,
     again |-> h.watch = "got" /\ op = "get" /\ item \in h.absent,
     prefetched |-> IF h.watch # "bulk" THEN h.prefetched
                    ELSE IF op = "clear_cache" THEN FALSE
                    ELSE h.prefetched \/ F.filled,
     token |-> h.token]

(***************************************************************************)
(* Actions: one per operation.  An operation runs when the caller is idle  *)
(* and leaves what it returned or raised and the calls it issued in        *)
(* lastOp, result and calls; the caller then drops them and is idle again. *)
(***************************************************************************)
Op(op, item, value) == [op |-> op, item |-> item, value |-> value]

Idle == Op("idle", <<>>, PyNone)

M0 == Mem(_properties_cache, _properties, domains, labels, constructed, daemon)

\* the operation op ends in one of the memories of outcomes
Apply(op, item, value, outcomes) ==
    /\ lastOp = Idle
    /\ \E F \in outcomes :
        /\ ~F.full
        /\ F.res # Running
        /\ Recorded(history, op, item, value, F).list_calls <= MaxListCalls
        /\ _properties_cache' = F.cache
        /\ _properties' = F.props
        /\ domains' = F.dom
        /\ labels' = F.lab
        /\ constructed' = F.made
        /\ _local_properties_set' = F.sets
        /\ instance_dict' = F.inst
        /\ daemon' = F.d
        /\ lastOp' = Op(op, item, value)
        /\ result' = F.res
        /\ calls' = F.calls
        /\ history' = Recorded(history, op, item, value, F)
        /\ UNCHANGED <<_config, pool_info, cache_enabled, blind_mode, daemon_names, input>>

Get(item) == Apply("get", item, PyNone, __getattr__(M0, item))

IsDefault(item) == Apply("is_default", item, PyNone, property_is_default(M0, item))

GetDefault(item) == Apply("get_default", item, PyNone, property_get_default(M0, item))

Set(key, value) == Apply("set", key, value, __setattr__(M0, key, value))

Delete(name) == Apply("delete", name, PyNone, __delattr__(M0, name))

PropertyList == Apply("property_list", <<>>, PyNone, property_list(M0))

PropertyHelp(name) == Apply("property_help", name, PyNone, property_help(M0, name))

ClearCache == Apply("clear_cache", <<>>, PyNone, clear_cache(M0))

\* another client of the daemon changes a property
DaemonChange ==
    /\ lastOp = Idle
    /\ \E d \in DaemonStates : DaemonOk(d) /\ d # daemon /\ daemon' = d
    /\ UNCHANGED <<_config, pool_info, cache_enabled, blind_mode, daemon_names, _properties_cache,
                   _properties, domains, labels, constructed,
                   _local_properties_set, instance_dict, input, lastOp,
                   result, calls, history>>

\* the caller is done with the result of the last operation
Discard ==
    /\ lastOp # Idle
    /\ lastOp' = Idle
    /\ result' = Running
    /\ calls' = <<>>
    /\ history' = Dropped(history)
    /\ UNCHANGED <<_config, pool_info, cache_enabled, blind_mode, daemon, daemon_names,
                   _properties_cache, _properties, domains, labels, constructed,
                   _local_properties_set, instance_dict, input>>

NoColl == [_names_list |-> PyNone, _objects |-> <<>>]

\* no class has computed its reserved-name set
NoSets == [c \in Classes |-> PyNone]

\* the sets once a proxy of class PropertyHolder is constructed: __init__
\* assigns self.app, and that assignment calls _local_properties
OneConstructed == [NoSets EXCEPT !["PropertyHolder"] = PySet(Collected(NoSets, "PropertyHolder"))]

NoAttributes == [c \in Classes |-> {}]

NoInput == [kind |-> "none"]

NoneMade ==
    [domains |-> [n \in VMNames |-> 0], labels |-> [n \in LabelItems |-> 0]]

\* the state after construction of a proxy and its app
Init ==
    /\ cache_enabled \in BOOLEAN
    /\ blind_mode = FALSE
    /\ daemon \in {d \in DaemonStates : DaemonOk(d)}
    /\ daemon_names = <<>>
    /\ _properties_cache = <<>>
    /\ _properties = PyNone
    /\ domains = NoColl
    /\ labels = NoColl
    /\ constructed = NoneMade
    /\ _local_properties_set = OneConstructed
    /\ instance_dict = NoAttributes
    /\ input = NoInput
    /\ _config = PyNone
    /\ pool_info = Nothing
    /\ lastOp = Idle
    /\ result = Running
    /\ calls = <<>>
    /\ history \in {NoHistory(w) : w \in Watches}

Next ==
    \/ \E item \in Items : Get(item)
    \/ \E item \in Items : IsDefault(item)
    \/ \E item \in Items \ {<<"c">>} : GetDefault(item)
    \/ \E key \in RemoteKeys, value \in SetValues : Set(key, value)
    \/ \E name \in RemoteKeys : Delete(name)
    \/ PropertyList
    \/ \E name \in {<<"a">>} : PropertyHelp(name)
    \/ ClearCache
    \/ DaemonChange
    \/ Discard

Spec == Init /\ [][Next]_vars

(***************************************************************************)
(* The operations of the proxy together with refresh, contains and keys of *)
(* the directory.                                                          *)
(***************************************************************************)
\* an operation of the directory: it ends with r unless the refresh raised
Refresh(force) ==
    Apply("refresh", <<>>, PyBool(force),
          {Ended(R, Return(PyNone)) : R \in refresh_cache(M0, force, daemon_names)})

Contains(item) == Apply("contains", item, PyNone, __contains__(M0, item, daemon_names))

CollKeys == Apply("keys", <<>>, PyNone, keys(M0, daemon_names))

InitOps ==
    /\ cache_enabled \in BOOLEAN
    /\ blind_mode = FALSE
    /\ daemon \in {d \in DaemonStates : DaemonOk(d)}
    /\ daemon_names \in NameLists
    /\ _properties_cache = <<>>
    /\ _properties = PyNone
    /\ domains = NoColl
    /\ labels = NoColl
    /\ constructed = NoneMade
    /\ _local_properties_set = OneConstructed
    /\ instance_dict = NoAttributes
    /\ input = NoInput
    /\ _config = PyNone
    /\ pool_info = Nothing
    /\ lastOp = Idle
    /\ result = Running
    /\ calls = <<>>
    /\ history = NoHistory("none")

NextOps ==
    \/ Next
    \/ \E force \in BOOLEAN : Refresh(force)
    \/ \E item \in LabelItems : Contains(item)
    \/ CollKeys

SpecOps == InitOps /\ [][NextOps]_vars

(***************************************************************************)
(* The pure functions of the codec, applied to an input drawn in the       *)
(* initial state.                                                          *)
(***************************************************************************)
\* the bytes a raw response is made of
Alphabet == {"0", "2", NUL, "a"}

RECURSIVE BytesUpTo(_)
BytesUpTo(n) ==
    IF n = 0 THEN {<<>>}
    ELSE BytesUpTo(n - 1)
         \cup {Append(b, c) : b \in {x \in BytesUpTo(n - 1) : Len(x) = n - 1}, c \in Alphabet}

\* ERR NUL type NUL traceback NUL format-string NUL, then each argument
\* followed by NUL
RECURSIVE Terminated(_)
Terminated(args) ==
    IF args = <<>> THEN <<>> ELSE args[1] \o <<NUL>> \o Terminated(Tail(args))

ErrorFrame(type, traceback, format_string, args) ==
    ErrMagic \o type \o <<NUL>> \o traceback \o <<NUL>> \o format_string \o <<NUL>>
    \o Terminated(args)

\* exception type names on the wire: names of qubesadmin.exc, of builtins, of
\* neither
TypeNames ==
    {p[1] : p \in ExcModule \ {q \in ExcModule : q[2] = "QubesPropertyAccessError"}}
    \cup {p[1] : p \in Builtins}
    \cup {<<"F", "o", "o", "E", "r", "r", "o", "r">>, <<"F", "o", "o">>, <<>>}

Tracebacks == {<<>>, <<"t", "b">>}
FormatStrings == {<<>>, <<"%", "s">>, <<HIGH>>}
ArgLists == {<<>>, <<(<<"x">>)>>, <<(<<>>)>>, <<(<<"x">>), (<<"y">>)>>, <<(<<HIGH>>)>>}

RawInput(b) == [kind |-> "raw", bytes |-> b]
FrameInput(type, traceback, format_string, args) ==
    [kind |-> "frame", bytes |-> ErrorFrame(type, traceback, format_string, args),
     type |-> type, traceback |-> traceback, format_string |-> format_string,
     args |-> args]

\* the longest property value escaped and decoded
MaxVal == 3

\* the characters of a property value: plain, line feed, backslash
ValueChars == {"a", LF, "\\"}

RECURSIVE ValuesUpTo(_)
ValuesUpTo(n) ==
    IF n = 0 THEN {<<>>}
    ELSE ValuesUpTo(n - 1)
         \cup {Append(v, c) : v \in {x \in ValuesUpTo(n - 1) : Len(x) = n - 1}, c \in ValueChars}

\* a value and the line the daemon escapes it to
ValueInput(v) == [kind |-> "value", value |-> v, bytes |-> Escape(v)]

ResponseInputs ==
    {ValueInput(v) : v \in ValuesUpTo(MaxVal)}
    \cup {RawInput(b) : b \in BytesUpTo(MaxResp)}
    \cup {RawInput(OkMagic \o b) : b \in BytesUpTo(MaxResp)}
    \cup {FrameInput(t, tb, f, a) :
            t \in TypeNames, tb \in Tracebacks, f \in FormatStrings, a \in ArgLists}

ParseResponse ==
    /\ lastOp = Idle
    /\ input.kind \in {"raw", "frame"}
    /\ lastOp' = Op("_parse_qubesd_response", <<>>, PyNone)
    /\ result' = _parse_qubesd_response(input.bytes)
    /\ UNCHANGED <<_config, pool_info, cache_enabled, blind_mode, daemon, daemon_names,
                   _properties_cache, _properties, domains, labels, constructed,
                   _local_properties_set, instance_dict, input, calls, history>>

InitCodec ==
    /\ cache_enabled = FALSE
    /\ blind_mode = FALSE
    /\ daemon = [p \in PropNames |-> [dflt |-> TRUE, raw |-> DefaultRaw(p)]]
    /\ daemon_names = <<>>
    /\ _properties_cache = <<>>
    /\ _properties = PyNone
    /\ domains = NoColl
    /\ labels = NoColl
    /\ constructed = NoneMade
    /\ _local_properties_set = OneConstructed
    /\ instance_dict = NoAttributes
    /\ input \in ResponseInputs
    /\ _config = PyNone
    /\ pool_info = Nothing
    /\ lastOp = Idle
    /\ result = Running
    /\ calls = <<>>
    /\ history = NoHistory("none")

\* bytes(unescape(line)) of the escaped value
Unescape ==
    /\ lastOp = Idle
    /\ input.kind = "value"
    /\ lastOp' = Op("unescape", <<>>, PyNone)
    /\ result' = unescape(input.bytes)
    /\ UNCHANGED <<_config, pool_info, cache_enabled, blind_mode, daemon, daemon_names,
                   _properties_cache, _properties, domains, labels, constructed,
                   _local_properties_set, instance_dict, input, calls, history>>

NextCodec == ParseResponse \/ Unescape

SpecCodec == InitCodec /\ [][NextCodec]_vars

(***************************************************************************)
(* _parse_type_value applied to a type field and a value drawn in the      *)
(* initial state, on directories that hold no wrapper yet or one each.     *)
(***************************************************************************)
TypeFields ==
    {TypePrefix \o k : k \in {<<"s", "t", "r">>, <<"b", "o", "o", "l">>, <<"i", "n", "t">>,
                              <<"v", "m">>, <<"l", "a", "b", "e", "l">>,
                              <<"f", "o", "o">>, <<>>}}
    \cup {<<"i", "n", "t">>, <<"t", "y", "p", "e">>, <<HIGH>>}

RawValues ==
    {<<>>, <<"T", "r", "u", "e">>, <<"F", "a", "l", "s", "e">>, <<"t", "r", "u", "e">>,
     <<"4", "2">>, <<"7">>, <<"w">>, <<"r">>, <<"a", LF, "\\">>, <<HIGH>>}

\* the names a directory of the model may be asked for
NamesOf(prop_type) ==
    IF prop_type = TypePrefix \o <<"v", "m">> THEN VMNames \cup {<<>>}
    ELSE IF prop_type = TypePrefix \o <<"l", "a", "b", "e", "l">> THEN LabelItems \cup {<<>>}
    ELSE RawValues

TypedInput(prop_type, value) == [kind |-> "typed", prop_type |-> prop_type, value |-> value]

TypedInputs == {TypedInput(t, v) : t \in TypeFields, v \in RawValues}

\* a directory that has constructed the wrapper of name already
Holding(name) == [_names_list |-> PyNone, _objects |-> <<<<name, PyObj(name, 1)>>>>]

ParseTypeValue ==
    /\ input.kind = "typed"
    /\ input.value \in NamesOf(input.prop_type)
    /\ Apply("_parse_type_value", <<>>, PyNone,
             {_parse_type_value(M0, input.prop_type, input.value)})

InitTypes ==
    /\ cache_enabled = FALSE
    /\ blind_mode = FALSE
    /\ daemon = [p \in PropNames |-> [dflt |-> TRUE, raw |-> DefaultRaw(p)]]
    /\ daemon_names = <<>>
    /\ _properties_cache = <<>>
    /\ _properties = PyNone
    /\ \E held \in BOOLEAN :
        /\ domains = IF held THEN Holding(<<"w">>) ELSE NoColl
        /\ labels = IF held THEN Holding(<<"r">>) ELSE NoColl
        /\ constructed = IF held
                         THEN [domains |-> [n \in VMNames |-> IF n = <<"w">> THEN 1 ELSE 0],
                               labels |-> [n \in LabelItems |-> IF n = <<"r">> THEN 1 ELSE 0]]
                         ELSE NoneMade
    /\ _local_properties_set = OneConstructed
    /\ instance_dict = NoAttributes
    /\ input \in TypedInputs
    /\ _config = PyNone
    /\ pool_info = Nothing
    /\ lastOp = Idle
    /\ result = Running
    /\ calls = <<>>
    /\ history = NoHistory("none")

NextTypes == ParseTypeValue \/ Discard

SpecTypes == InitTypes /\ [][NextTypes]_vars

(***************************************************************************)
(* Local attributes.  The proxy under test is of the class drawn in the    *)
(* initial state; proxies of either class are constructed in any order,    *)
(* and the operations run once the proxy under test is constructed.        *)
(***************************************************************************)
\* the names defined in the bodies of the classes along the MRO
Defined(cls) == UNION {ClassAttrs(MRO(cls)[i]) : i \in 1..Len(MRO(cls))}

\* what the lookup of a local attribute returns
Attribute == [t |-> "attribute"]

\* getattr(self, item): __getattr__ is called once the lookup in the instance
\* and class dictionaries has failed
GetAttr(M, item) ==
    IF item \in M.inst[M.cls] \/ item \in Defined(M.cls)
    THEN {End(M, Return(Attribute))}
    ELSE __getattr__(M, item)

\* names under test: a private one, one defined in Sub, one defined in
\* PropertyHolder, a property of the daemon
LocalKeys ==
    {<<"_", "x">>, <<"k">>, <<"a">>} \cup ClassAttrs("PropertyHolder")

LocalValues == {DEFAULT, PyNone}

ProxyInput(cls) == [kind |-> "proxy", cls |-> cls]

\* the memory of an operation on the proxy under test
MP == [M0 EXCEPT !.cls = input.cls]

IsConstructed == input.kind = "proxy" /\ _local_properties_set[input.cls] # PyNone

\* PropertyHolder.__init__ of a proxy of class cls: assigning self.app calls
\* _local_properties
Construct(cls) ==
    /\ input.kind = "proxy"
    /\ Apply("construct", <<>>, PyStr(<<cls>>),
             {End(_local_properties([M0 EXCEPT !.cls = cls]), Return(PyNone))})

LocalGet(item) == IsConstructed /\ Apply("get", item, PyNone, GetAttr(MP, item))

LocalIsDefault(item) ==
    IsConstructed /\ Apply("is_default", item, PyNone, property_is_default(MP, item))

LocalGetDefault(item) ==
    IsConstructed /\ Apply("get_default", item, PyNone, property_get_default(MP, item))

LocalSet(key, value) ==
    IsConstructed /\ Apply("set", key, value, __setattr__(MP, key, value))

LocalDelete(name) == IsConstructed /\ Apply("delete", name, PyNone, __delattr__(MP, name))

InitLocal ==
    /\ cache_enabled = FALSE
    /\ blind_mode = FALSE
    /\ daemon = [p \in PropNames |-> [dflt |-> TRUE, raw |-> DefaultRaw(p)]]
    /\ daemon_names = <<>>
    /\ _properties_cache = <<>>
    /\ _properties = PyNone
    /\ domains = NoColl
    /\ labels = NoColl
    /\ constructed = NoneMade
    /\ _local_properties_set = NoSets
    /\ instance_dict = NoAttributes
    /\ input \in {ProxyInput(cls) : cls \in Classes}
    /\ _config = PyNone
    /\ pool_info = Nothing
    /\ lastOp = Idle
    /\ result = Running
    /\ calls = <<>>
    /\ history = NoHistory("none")

NextLocal ==
    \/ \E cls \in Classes : Construct(cls)
    \/ \E item \in LocalKeys : LocalGet(item)
    \/ \E item \in LocalKeys : LocalIsDefault(item)
    \/ \E item \in LocalKeys : LocalGetDefault(item)
    \/ \E key \in LocalKeys, value \in LocalValues : LocalSet(key, value)
    \/ \E name \in LocalKeys : LocalDelete(name)
    \/ Discard

SpecLocal == InitLocal /\ [][NextLocal]_vars

(***************************************************************************)
(* Cloning.  The source proxy is drawn in the initial state: its daemon,   *)
(* and the names its own property_list() would return.                     *)
(***************************************************************************)
SourceLists == {Props, <<(<<"a">>)>>}

SourceInput(d, listed) == [kind |-> "source", d |-> d, listed |-> listed]

CloneProperties(proplist) ==
    /\ input.kind = "source"
    /\ Apply("clone_properties", <<>>, proplist, clone_properties(M0, input, proplist))

InitClone ==
    /\ cache_enabled = FALSE
    /\ blind_mode = FALSE
    /\ daemon \in {d \in DaemonStates : DaemonOk(d)}
    /\ daemon_names = <<>>
    /\ _properties_cache = <<>>
    /\ _properties = PyNone
    /\ domains = NoColl
    /\ labels = NoColl
    /\ constructed = NoneMade
    /\ _local_properties_set = OneConstructed
    /\ instance_dict = NoAttributes
    /\ input \in {SourceInput(d, l) : d \in {s \in DaemonStates : DaemonOk(s)},
                                      l \in SourceLists}
    /\ _config = PyNone
    /\ pool_info = Nothing
    /\ lastOp = Idle
    /\ result = Running
    /\ calls = <<>>
    /\ history = NoHistory("none")

NextClone ==
    \/ \E proplist \in {PyNone, PyList(<<(<<"b">>), (<<"a">>)>>)} : CloneProperties(proplist)
    \/ PropertyList
    \/ Discard

SpecClone == InitClone /\ [][NextClone]_vars

(***************************************************************************)
(* The directory.  Its daemon's names change between operations; the app   *)
(* is in blind mode or not for the whole behaviour.                        *)
(***************************************************************************)
Iterate == Apply("iter", <<>>, PyNone, __iter__(M0, daemon_names))

CollItems == Apply("items", <<>>, PyNone, items(M0, daemon_names))

CollValues == Apply("values", <<>>, PyNone, values(M0, daemon_names))

GetItem(item) == Apply("getitem", item, PyNone, __getitem__(M0, item, daemon_names))

GetBlind(item) == Apply("get_blind", item, PyNone, {get_blind(M0, item)})

CollClearCache(invalidate_name) ==
    Apply("coll_clear_cache", <<>>, invalidate_name, {coll_clear_cache(M0, invalidate_name)})

\* objects are added to the daemon's directory or removed from it
NamesChange ==
    /\ lastOp = Idle
    /\ daemon_names' \in NameLists \ {daemon_names}
    /\ UNCHANGED <<_config, pool_info, cache_enabled, blind_mode, daemon, _properties_cache, _properties,
                   domains, labels, constructed, _local_properties_set, instance_dict,
                   input, lastOp, result, calls, history>>

InitColl ==
    /\ cache_enabled = FALSE
    /\ blind_mode \in BOOLEAN
    /\ daemon = [p \in PropNames |-> [dflt |-> TRUE, raw |-> DefaultRaw(p)]]
    /\ daemon_names \in NameLists
    /\ _properties_cache = <<>>
    /\ _properties = PyNone
    /\ domains = NoColl
    /\ labels = NoColl
    /\ constructed = NoneMade
    /\ _local_properties_set = OneConstructed
    /\ instance_dict = NoAttributes
    /\ input = NoInput
    /\ _config = PyNone
    /\ pool_info = Nothing
    /\ lastOp = Idle
    /\ result = Running
    /\ calls = <<>>
    /\ history = NoHistory("epoch")

\* the names the directory is asked for: one the daemon may list, one it
\* never lists
Asked == {<<"r">>, <<"z">>}

NextColl ==
    \/ \E force \in BOOLEAN : Refresh(force)
    \/ \E item \in Asked : Contains(item)
    \/ Iterate
    \/ CollKeys
    \/ CollItems
    \/ CollValues
    \/ \E item \in Asked : GetItem(item)
    \/ \E item \in Asked : GetBlind(item)
    \/ \E invalidate_name \in {PyNone} \cup {PyStr(n) : n \in Asked} :
            CollClearCache(invalidate_name)
    \/ NamesChange
    \/ Discard

SpecColl == InitColl /\ [][NextColl]_vars

(***************************************************************************)
(* The claims.  cache_enabled is fixed for the life of a proxy: the code   *)
(* that sets it is the application's.                                      *)
(***************************************************************************)
GetCall(item) == CallOf("Get", PyStrArg(item), NoArg)

Issued(method) == \E i \in 1..Len(calls) : calls[i].method = method

Private(item) == StartsWith(item, <<"_">>)

\* C1: with caching enabled, the get(x) that follows a set(x, v) which
\* returned, on a proxy whose cache held x, issues a fresh transport call
\* instead of answering from the entry cached before the set.
C1_GetAfterSetIsFresh ==
    (/\ cache_enabled
     /\ lastOp.op = "get"
     /\ history.after.op = "set"
     /\ history.after.cached)
    => calls # <<>>

\* C2: with caching enabled, the get(name) or is_default(name) that follows
\* a delete(name) which issued Reset and returned, on a proxy whose cache
\* held name, is not answered from the entry cached before the delete.
C2_ReadAfterDeleteIsFresh ==
    (/\ cache_enabled
     /\ lastOp.op \in {"get", "is_default"}
     /\ history.after.op = "delete"
     /\ history.after.cached)
    => calls # <<>>

\* C3: with caching enabled, once get(x) has returned a value, a later get(x)
\* with no clear_cache, set or delete in between issues no transport call and
\* returns the same value.
C3_SecondGetFromCache ==
    (/\ cache_enabled
     /\ lastOp.op = "get"
     /\ history.repeat # Nothing)
    => (calls = <<>> /\ result = Return(history.repeat))

\* a second get(x) has run, after another client changed the daemon's value
C3_Witness ==
    /\ cache_enabled
    /\ lastOp.op = "get"
    /\ lastOp.item = <<"a">>
    /\ history.repeat # Nothing
    /\ history.repeat # PyStr(daemon[<<"a">>].raw)
    /\ Returned(result)

\* C4 as stated: once a GetAll failure was swallowed, no get or is_default
\* issues GetAll again before the next clear_cache.
C4_NeverRetried ==
    (history.watch = "bulk" /\ history.before.failed) => ~Issued("GetAll")

\* C4 amended: a get or is_default of a non-private name issues GetAll
\* exactly when caching is enabled and the cache is empty as it begins, so
\* after a swallowed failure GetAll is issued again until a per-item fetch
\* has stored an entry, and not from then on until clear_cache; a swallowed
\* failure never surfaces: the operation goes on after it, and any further
\* call it issues is the Get of the name.
C4_RetriedWhileCacheEmpty ==
    (/\ history.watch = "bulk"
     /\ lastOp.op \in {"get", "is_default"}
     /\ ~Private(lastOp.item))
    => /\ Issued("GetAll") <=> (cache_enabled /\ history.before.empty)
       /\ Issued("GetAll") => calls[1] = GetAllCall
       /\ history.swallowed =>
            /\ ~Raised(result, "QubesDaemonAccessError")
            /\ calls \in {<<GetAllCall>>, <<GetAllCall, GetCall(lastOp.item)>>}

\* a failure was swallowed earlier, a per-item fetch has filled the cache
\* since, and a get of a name not cached yet issues the Get alone
C4_Witness ==
    /\ history.watch = "bulk"
    /\ history.before.failed
    /\ ~history.before.empty
    /\ lastOp.op = "get"
    /\ calls = <<GetCall(lastOp.item)>>

\* C5 as stated: no operation issues two or more transport calls.
C5_AtMostOneCall == Len(calls) <= 1

\* C5 amended: every operation issues at most one transport call, except a
\* get or is_default with caching enabled whose bulk prefetch fails with a
\* no-response error: it issues GetAll and then the Get of the name, two
\* calls.
C5_TwoCallsOnlyAfterSwallowedPrefetch ==
    /\ Len(calls) <= 2
    /\ Len(calls) = 2 =>
        /\ cache_enabled
        /\ lastOp.op \in {"get", "is_default"}
        /\ history.swallowed
        /\ calls = <<GetAllCall, GetCall(lastOp.item)>>
    /\ lastOp.op \in {"refresh", "contains", "keys"} => calls \in {<<>>, <<ListMethodCall>>}

\* an is_default has issued two calls
C5_Witness ==
    /\ lastOp.op = "is_default"
    /\ Len(calls) = 2
    /\ Returned(result)

\* C6 as stated: with caching disabled every get of a non-private name issues
\* a fresh Get call.
C6_EveryGetCalls ==
    (/\ ~cache_enabled
     /\ lastOp.op = "get"
     /\ ~Private(lastOp.item))
    => calls = <<GetCall(lastOp.item)>>

\* C6 amended: with caching disabled no operation issues GetAll, and a get
\* of a non-private name issues exactly one fresh Get call however many
\* earlier gets of the name succeeded, unless property_list() has memoized a
\* list that lacks the name: then the get raises AttributeError and issues
\* no call.
C6_GetCallsUnlessNotListed ==
    ~cache_enabled =>
        /\ ~Issued("GetAll")
        /\ _properties_cache = <<>>
        /\ (lastOp.op = "get" /\ ~Private(lastOp.item)) =>
             IF _properties = PyNone \/ InList(_properties.v, lastOp.item)
             THEN calls = <<GetCall(lastOp.item)>>
             ELSE calls = <<>> /\ result = Raise("AttributeError", <<lastOp.item>>)

\* with caching disabled, a get of a name an earlier get returned a value
\* for has issued a Get again
C6_Witness ==
    /\ ~cache_enabled
    /\ lastOp.op = "get"
    /\ history.repeat # Nothing
    /\ calls = <<GetCall(lastOp.item)>>
    /\ Returned(result)

\* C7: clear_cache() leaves the cache empty whatever it held, and with
\* caching enabled the next get or is_default of a non-private name starts
\* with a new GetAll call.
C7_ClearCacheEmpties ==
    /\ lastOp.op = "clear_cache" => _properties_cache = <<>>
    /\ (/\ cache_enabled
        /\ lastOp.op \in {"get", "is_default"}
        /\ history.after.op = "clear_cache"
        /\ ~Private(lastOp.item))
       => (calls # <<>> /\ calls[1] = GetAllCall)

\* a get has run right after a clear_cache() that found the cache filled
C7_Witness ==
    /\ cache_enabled
    /\ lastOp.op = "get"
    /\ history.after.op = "clear_cache"
    /\ history.after.cached
    /\ calls = <<GetAllCall>>
    /\ Returned(result)

\* C8 as stated: whenever property_list() returns, the proxy has issued
\* exactly one List call in its life and the list is the one the first
\* property_list() returned.
C8_OneListCallEver ==
    (/\ history.watch = "list"
     /\ lastOp.op = "property_list"
     /\ Returned(result))
    => (history.list_calls = 1 /\ result.val = history.first_list)

\* C8 amended: property_list() issues a List call exactly when no list is
\* memoized as it begins (none yet, or every List so far failed), and
\* otherwise returns the memoized list without a call; the memoized list is
\* set by the first List that succeeds and is replaced only by a bulk
\* prefetch that succeeds, which a get or is_default triggers, with the
\* names the prefetch returned.
C8_MemoizedUntilPrefetch ==
    (history.watch = "list" /\ lastOp # Idle) =>
        /\ lastOp.op = "property_list" =>
             IF history.memo = PyNone
             THEN /\ calls = <<CallOf("List", NoArg, NoArg)>>
                  /\ Returned(result) => _properties = result.val
             ELSE calls = <<>> /\ result = Return(history.memo)
        /\ _properties # history.memo =>
             \/ lastOp.op = "property_list" /\ history.memo = PyNone /\ Returned(result)
             \/ /\ lastOp.op \in {"get", "is_default"}
                /\ calls # <<>>
                /\ calls[1] = GetAllCall
                /\ ~history.swallowed
                /\ _properties = PyList(DictKeys(_properties_cache))

\* property_list() has returned a list although the proxy never issued a
\* List call: a bulk prefetch had memoized it
C8_Witness ==
    /\ history.watch = "list"
    /\ lastOp.op = "property_list"
    /\ history.list_calls = 0
    /\ history.memo # PyNone
    /\ Returned(result)

\* C9: decoding a response that begins with 0x30 0x00 raises nothing and
\* returns the bytes after those two, unchanged, whatever they are.
C9_OkReturnsPayload ==
    (/\ lastOp.op = "_parse_qubesd_response"
     /\ Len(input.bytes) >= 2
     /\ input.bytes[1] = "0"
     /\ input.bytes[2] = NUL)
    => (Returned(result) /\ input.bytes = <<"0", NUL>> \o result.val)

\* the response 0x30 0x00 with nothing after it has been decoded
C9_Witness ==
    /\ lastOp.op = "_parse_qubesd_response"
    /\ input.bytes = <<"0", NUL>>
    /\ result = Return(<<>>)

\* C10: decoding the frame built from a type name, a traceback, a format
\* string and a list of arguments, all text, raises the error whose class the
\* registry holds under the type name, carrying the format string followed
\* by the arguments and not the empty field after the last NUL; a type name
\* that is not in the registry and does not end in "Error" raises
\* QubesException with the same.
C10_ErrorFrameRaisesNamedKind ==
    (/\ lastOp.op = "_parse_qubesd_response"
     /\ input.kind = "frame"
     /\ Decodable(input.type)
     /\ Decodable(input.format_string)
     /\ \A i \in 1..Len(input.args) : Decodable(input.args[i]))
    => /\ \A p \in ExcModule :
            p[1] = input.type =>
                result = Raise(p[2], <<input.format_string>> \o input.args)
       /\ (~Has(ExcModule, input.type) /\ ~EndsWith(input.type, <<"E", "r", "r", "o", "r">>))
            => result = Raise("QubesException", <<input.format_string>> \o input.args)

\* a frame naming QubesVMNotFoundError with two arguments has been decoded
C10_Witness ==
    /\ lastOp.op = "_parse_qubesd_response"
    /\ input.kind = "frame"
    /\ Len(input.args) = 2
    /\ Raised(result, "QubesVMNotFoundError")
    /\ Len(result.arg) = 3

TextFrame ==
    /\ lastOp.op = "_parse_qubesd_response"
    /\ input.kind = "frame"
    /\ Decodable(input.type)
    /\ Decodable(input.format_string)
    /\ \A i \in 1..Len(input.args) : Decodable(input.args[i])

UnknownErrorName ==
    ~Has(ExcModule, input.type) /\ EndsWith(input.type, <<"E", "r", "r", "o", "r">>)

\* C11 as stated: a type name that is not in the registry and ends in
\* "Error" raises the communication error when it is not a built-in name and
\* QubesException when it is one.
C11_UnknownErrorIsCommunicationFailure ==
    (TextFrame /\ UnknownErrorName) =>
        IF Has(Builtins, input.type)
        THEN Raised(result, "QubesException")
        ELSE Raised(result, "QubesDaemonCommunicationError")

\* C11 amended: a type name that is not in the registry and ends in "Error"
\* raises the built-in exception of that name when it is a built-in name,
\* and QubesException when it is not; either carries the format string and
\* the arguments.
C11_UnknownErrorIsBuiltinOrGeneric ==
    (TextFrame /\ UnknownErrorName) =>
        /\ \A p \in Builtins :
            p[1] = input.type =>
                result = Raise(p[2], <<input.format_string>> \o input.args)
        /\ ~Has(Builtins, input.type) =>
                result = Raise("QubesException", <<input.format_string>> \o input.args)

\* a frame naming the built-in KeyError has been decoded
C11_Witness ==
    /\ TextFrame
    /\ input.type = <<"K", "e", "y", "E", "r", "r", "o", "r">>
    /\ Raised(result, "KeyError")

\* an error built from the fields of an error frame: it carries at least the
\* format string
Structured(r) == r.kind = "raise" /\ Len(r.arg) >= 1

\* C12: decoding classifies every response: the empty one raises the access
\* error; a non-empty one that begins with neither 0x30 0x00 nor 0x32 0x00
\* raises the communication error; and whatever the response, the outcome is
\* a payload, an error built from an error frame, the access error or the
\* communication error.
C12_DecodingIsTotal ==
    lastOp.op = "_parse_qubesd_response" =>
        /\ input.bytes = <<>> => Raised(result, "QubesDaemonAccessError")
        /\ (/\ input.bytes # <<>>
            /\ ~StartsWith(input.bytes, <<"0", NUL>>)
            /\ ~StartsWith(input.bytes, <<"2", NUL>>))
           => Raised(result, "QubesDaemonCommunicationError")
        /\ \/ Returned(result)
           \/ StartsWith(input.bytes, <<"2", NUL>>) /\ Structured(result)
           \/ Raised(result, "QubesDaemonAccessError")
           \/ Raised(result, "QubesDaemonCommunicationError")

Kind(k) == input.prop_type = <<"t", "y", "p", "e", "=">> \o k

KnownKinds ==
    {<<"s", "t", "r">>, <<"b", "o", "o", "l">>, <<"i", "n", "t">>, <<"v", "m">>,
     <<"l", "a", "b", "e", "l">>}

\* r is the wrapper the directory coll now holds under name
HandleOf(coll, name, r) ==
    /\ Returned(r)
    /\ r.val.t = "obj"
    /\ r.val.name = name
    /\ DictHas(coll._objects, name)
    /\ DictGet(coll._objects, name) = r.val

\* C13: decoding a type field and a value, both text, follows the table: str
\* gives the value itself; bool raises AttributeError for the empty value,
\* gives true for "True" and false for any other value; int raises
\* AttributeError for the empty value and otherwise parses base 10; vm and
\* label give None for the empty value and otherwise the wrapper that
\* get_blind of app.domains or app.labels returns for the name; any other
\* kind, or a type field that does not begin with type=, raises the
\* communication error.
C13_TypedValueTable ==
    (/\ lastOp.op = "_parse_type_value"
     /\ Decodable(input.prop_type)
     /\ Decodable(input.value))
    => /\ Kind(<<"s", "t", "r">>) => result = Return(PyStr(input.value))
       /\ Kind(<<"b", "o", "o", "l">>) =>
            IF input.value = <<>> THEN Raised(result, "AttributeError")
            ELSE result = Return(PyBool(input.value = <<"T", "r", "u", "e">>))
       /\ Kind(<<"i", "n", "t">>) =>
            IF input.value = <<>> THEN Raised(result, "AttributeError")
            ELSE \A n \in 0..99 : IntToStr(n) = input.value => result = Return(PyInt(n))
       /\ Kind(<<"v", "m">>) =>
            IF input.value = <<>> THEN result = Return(PyNone)
            ELSE HandleOf(domains, input.value, result)
       /\ Kind(<<"l", "a", "b", "e", "l">>) =>
            IF input.value = <<>> THEN result = Return(PyNone)
            ELSE HandleOf(labels, input.value, result)
       /\ (~\E k \in KnownKinds : Kind(k)) => Raised(result, "QubesDaemonCommunicationError")

\* the value "False" of kind bool has been decoded to false
C13_Witness ==
    /\ lastOp.op = "_parse_type_value"
    /\ Kind(<<"b", "o", "o", "l">>)
    /\ input.value = <<"F", "a", "l", "s", "e">>
    /\ result = Return(PyBool(FALSE))

\* C14: escaping a value (line feed to backslash n, backslash to two
\* backslashes) and decoding the result with unescape gives the value back,
\* whatever line feeds and backslashes it holds.
C14_EscapeRoundTrip ==
    lastOp.op = "unescape" => result = Return(input.value)

AttributeMissing(item) == Raise("AttributeError", <<item>>)

\* the state an operation on local attributes must leave alone
Remote == <<daemon, _properties_cache, _properties, domains, labels, constructed>>

\* C15: get, set and delete on a name beginning with '_' issue no transport
\* call: get of such a name raises AttributeError unless the name is set on
\* the proxy, set and delete change nothing but the proxy's own attributes,
\* and is_default and get_default raise AttributeError without a call.
C15_PrivateNamesAreLocal ==
    [][(/\ lastOp'.op \in {"get", "is_default", "get_default", "set", "delete"}
        /\ Private(lastOp'.item))
       => /\ calls' = <<>>
          /\ UNCHANGED Remote
          /\ lastOp'.op \in {"is_default", "get_default"}
                => result' = AttributeMissing(lastOp'.item) /\ UNCHANGED instance_dict
          /\ lastOp'.op = "get"
                => /\ UNCHANGED instance_dict
                   /\ result' = IF lastOp'.item \in instance_dict[input.cls]
                                 THEN Return(Attribute)
                                 ELSE AttributeMissing(lastOp'.item)
          /\ lastOp'.op = "set"
                => /\ result' = Return(PyNone)
                   /\ instance_dict' = [instance_dict EXCEPT
                                           ![input.cls] = @ \cup {lastOp'.item}]
          /\ lastOp'.op = "delete"
                => /\ result' = IF lastOp'.item \in instance_dict[input.cls]
                                 THEN Return(PyNone)
                                 ELSE AttributeMissing(lastOp'.item)
                   /\ instance_dict' = [instance_dict EXCEPT
                                           ![input.cls] = @ \ {lastOp'.item}]]_vars

\* a private name was set on the proxy, and then deleted from it
C15_Witness ==
    /\ lastOp.op = "delete"
    /\ Private(lastOp.item)
    /\ result = Return(PyNone)
    /\ calls = <<>>

\* C16: set and delete on a name defined in a class of the proxy's hierarchy
\* issue no call and change nothing but the proxy's own attributes; the
\* reserved-name set of a class, once computed, holds the names defined in
\* the classes of its own hierarchy and never changes.
C16_ClassNamesAreLocal ==
    [][/\ (/\ lastOp'.op \in {"set", "delete"}
           /\ input.kind = "proxy"
           /\ lastOp'.item \in Defined(input.cls))
          => calls' = <<>> /\ UNCHANGED Remote
       /\ \A cls \in Classes :
            /\ _local_properties_set[cls] # PyNone
                  => _local_properties_set'[cls] = _local_properties_set[cls]
            /\ _local_properties_set'[cls] # PyNone
                  => Defined(cls) \subseteq _local_properties_set'[cls].v]_vars

\* the subclass computed its set after its base class had computed its own,
\* and a name defined in the subclass only was set on a proxy of the subclass
C16_Witness ==
    /\ input = ProxyInput("Sub")
    /\ lastOp.op = "set"
    /\ lastOp.item \in ClassAttrs("Sub") \ ClassAttrs("PropertyHolder")
    /\ MemoName \in _local_properties_set["Sub"].v
    /\ result = Return(PyNone)

\* the payload the claim gives for a value that is not the DEFAULT sentinel
WireString(value) ==
    CASE value.t = "obj" -> value.name
      [] value.t = "None" -> <<>>
      [] value.t = "int" -> IntToStr(value.v)

\* C17: a set of a remote property issues exactly one call: Reset of the
\* name without payload when the value is DEFAULT, otherwise Set of the name
\* with the name of the referenced VM, the empty string for None, and str
\* of the value in the other cases.
C17_SetIssuesOneCall ==
    (lastOp.op = "set" /\ ~Private(lastOp.item) /\ lastOp.item \notin Defined("PropertyHolder"))
        => calls = <<(IF lastOp.value = DEFAULT
                      THEN [method |-> "Reset", arg |-> PyStrArg(lastOp.item),
                            payload |-> NoArg]
                      ELSE [method |-> "Set", arg |-> PyStrArg(lastOp.item),
                            payload |-> Bytes(WireString(lastOp.value))])>>

\* a set of None that the daemon accepted
C17_Witness ==
    /\ lastOp.op = "set"
    /\ lastOp.value = PyNone
    /\ result = Return(PyNone)
    /\ Len(calls) = 1
    /\ calls[1].payload = Bytes(<<>>)

\* C18: when the last transport call of a get, is_default, set or delete
\* raised and the operation did not swallow it, the operation raises
\* QubesPropertyAccessError naming the property if the failure is a
\* QubesDaemonAccessError or a QubesVMNotFoundError and the failure itself
\* otherwise, and it leaves the property cache as it was.
C18_TransportFailuresRemapped ==
    [][(/\ lastOp'.op \in {"get", "is_default", "set", "delete"}
        /\ history'.answer.kind = "raise"
        /\ ~history'.swallowed)
       => /\ result' = IF history'.answer.exc \in {"QubesDaemonAccessError",
                                                    "QubesVMNotFoundError"}
                        THEN PropertyAccessError(lastOp'.item)
                        ELSE history'.answer
          /\ _properties_cache' = _properties_cache]_vars

\* C19: get_default of a name that does not begin with '_' issues exactly
\* one GetDefault call of that name, whether or not the cache holds the
\* property, leaves the cache and the memoized list as they were, and raises
\* AttributeError "<name> has no default" when the daemon answers with an
\* empty payload.
C19_GetDefaultAlwaysCalls ==
    [][(lastOp'.op = "get_default" /\ ~Private(lastOp'.item))
       => /\ calls' = <<CallOf("GetDefault", PyStrArg(lastOp'.item), NoArg)>>
          /\ UNCHANGED <<_properties_cache, _properties>>
          /\ history'.answer = Return(<<>>)
                => result' = Raise("AttributeError", <<lastOp'.item \o HasNoDefault>>)
          /\ (history'.answer.kind = "return" /\ lastOp'.item = <<"a">>)
                => result' = Return(PyStr(DefaultRaw(lastOp'.item)))]_vars

\* the cache held a property without default, and get_default of it called
\* the daemon and was answered with an empty payload
C19_Witness ==
    /\ lastOp.op = "get_default"
    /\ DictHas(_properties_cache, lastOp.item)
    /\ Len(calls) = 1
    /\ history.answer = Return(<<>>)
    /\ result.kind = "raise"

\* the names read from the source, and the names written to the destination
NamesRead ==
    {calls[i].arg.v : i \in {j \in 1..Len(calls) :
                                "dest" \in DOMAIN calls[j] /\ calls[j].method = "Get"}}

NamesWritten ==
    {calls[i].arg.v : i \in {j \in 1..Len(calls) :
                                "dest" \notin DOMAIN calls[j]
                                /\ calls[j].method \in {"Set", "Reset"}}}

\* C20: a clone_properties(source) without names that returns has read from
\* the source exactly the names of the source's property list, and written
\* to the destination none but these.
C20_CloneCopiesSourceList ==
    (/\ lastOp.op = "clone_properties"
     /\ lastOp.value = PyNone
     /\ Returned(result))
        => /\ NamesRead = {input.listed[i] : i \in 1..Len(input.listed)}
           /\ NamesWritten \subseteq NamesRead

\* the calls getattr(src, prop) issued, in order
Reads == SelectSeq(calls, LAMBDA c : "dest" \in DOMAIN c /\ c.method = "Get")

\* the names clone_properties goes through
Cloned ==
    IF lastOp.value # PyNone THEN lastOp.value.v
    ELSE IF _properties = PyNone THEN <<>>
    ELSE _properties.v

ReadFailed(c) == c.read.kind = "raise" /\ Catches({"AttributeError"}, c.read.exc)

\* C21: in clone_properties the names are read from the source in the order
\* of the list; a read that fails with AttributeError or with
\* QubesPropertyAccessError is followed by no Set or Reset of that name, is
\* not raised to the caller, and is followed by the read of the next name;
\* a clone that returns has read every name.
C21_CloneSkipsFailedReads ==
    lastOp.op = "clone_properties"
        => /\ Len(Reads) <= Len(Cloned)
           /\ \A i \in 1..Len(Reads) :
                /\ Reads[i].arg.v = Cloned[i]
                /\ ReadFailed(Reads[i])
                      => /\ Cloned[i] \notin NamesWritten
                         /\ i < Len(Cloned) => Len(Reads) > i
           /\ result.kind = "raise" => ~Catches({"AttributeError"}, result.exc)
           /\ Returned(result) => Len(Reads) = Len(Cloned)

\* the read of the first name failed, the second name was read and written,
\* and the clone returned
C21_Witness ==
    /\ lastOp.op = "clone_properties"
    /\ Returned(result)
    /\ Len(Reads) = 2
    /\ ReadFailed(Reads[1])
    /\ NamesWritten = {Reads[2].arg.v}

\* the last operation issued the directory's List call
CalledList == \E i \in 1..Len(calls) : calls[i] = ListMethodCall

\* and the call was answered with a well-formed list
GotList == CalledList /\ history.answer.kind = "return" /\ WellFormed(history.answer.val)

Cached(coll, name) == \E i \in 1..Len(coll._objects) : coll._objects[i][1] = name

Wrapper(coll, name) ==
    (CHOOSE e \in {coll._objects[i] : i \in 1..Len(coll._objects)} : e[1] = name)[2]

\* C22: keys() returns the cached name list, which holds the names of the
\* last well-formed list response in their order; an operation whose List
\* call is answered with a well-formed list evicts every cached wrapper
\* whose name the response lacks and keeps, as the same instance, every
\* cached wrapper whose name it holds.
C22_RefreshEvictsAbsentKeepsPresent ==
    [][/\ GotList'
          => /\ labels'._names_list = PyList(daemon_names)
             /\ \A name \in LabelItems :
                  Cached(labels, name)
                    => IF InList(daemon_names, name)
                       THEN /\ Cached(labels', name)
                            /\ Wrapper(labels', name) = Wrapper(labels, name)
                       ELSE ~Cached(labels', name)
       /\ (~GotList' /\ lastOp'.op # "coll_clear_cache")
          => labels'._names_list = labels._names_list
       /\ (lastOp'.op = "keys" /\ Returned(result'))
          => result'.val = labels'._names_list]_vars

\* a refresh was answered with the one name r: the wrapper of r is cached,
\* the wrapper made for g is no longer
C22_Witness ==
    /\ lastOp.op = "refresh"
    /\ GotList
    /\ labels._names_list = PyList(<<(<<"r">>)>>)
    /\ Cached(labels, <<"r">>)
    /\ constructed.labels[<<"g">>] > 0
    /\ ~Cached(labels, <<"g">>)

\* a refresh(force=False) of a directory whose name list is cached issues no
\* call and changes nothing
IdleRefreshIsNoOp ==
    (/\ lastOp'.op = "refresh"
     /\ lastOp'.value = PyBool(FALSE)
     /\ labels._names_list # PyNone)
        => calls' = <<>> /\ result' = Return(PyNone)
           /\ UNCHANGED <<labels, domains, constructed, daemon_names>>

\* C23 as stated: between two invalidations (clear_cache, forced refresh) the
\* contains, iteration, keys, items, values and indexed lookups issue at most
\* one List call altogether, and a non-forced refresh with a cached name list
\* issues no call and changes no state.
C23_OneListCallPerEpoch ==
    [][history'.read_calls <= 1 /\ IdleRefreshIsNoOp]_vars

\* C23, amended: between two invalidations at most one List call is answered
\* with a well-formed list, and no operation but a forced refresh issues the
\* call while a name list is cached; a List call that fails leaves the name
\* list unset, and the next reading operation issues the call again.  A
\* non-forced refresh with a cached name list issues no call and changes no
\* state.
C23_OneGoodListPerEpoch ==
    [][/\ history'.epoch_ok <= 1
       /\ (labels._names_list # PyNone /\ lastOp'.value # PyBool(TRUE)) => ~CalledList'
       /\ (labels._names_list = PyNone /\ lastOp'.op \in ReadOps /\ ~blind_mode)
            => CalledList'
       /\ (CalledList' /\ ~GotList' /\ labels._names_list = PyNone)
            => labels'._names_list = PyNone
       /\ IdleRefreshIsNoOp]_vars

\* within one epoch a reading operation's List call failed and a later one
\* was answered; the last operation read the cached list without a call
C23_Witness ==
    /\ history.read_calls = 2
    /\ history.epoch_ok = 1
    /\ lastOp.op \in ReadOps
    /\ calls = <<>>
    /\ Returned(result)

\* C24 as stated: every contains issues the List call, and answers whether
\* the daemon's list of the moment holds the name.
C24_ContainsAlwaysLists ==
    (lastOp.op = "contains" /\ Returned(result))
        => CalledList /\ result.val = PyBool(InList(daemon_names, lastOp.item))

\* C24, amended: contains refreshes without force: it issues the List call
\* only when no name list is cached, and answers whether the cached name
\* list, possibly older than the daemon's, holds the name.
C24_ContainsUsesCachedList ==
    [][lastOp'.op = "contains"
        => /\ CalledList' <=> labels._names_list = PyNone
           /\ Returned(result')
                => /\ labels'._names_list # PyNone
                   /\ result'.val = PyBool(InList(labels'._names_list.v, lastOp'.item))
           /\ labels._names_list # PyNone
                => /\ result' = Return(PyBool(InList(labels._names_list.v, lastOp'.item)))
                   /\ UNCHANGED labels]_vars

\* contains answered from a cached list that holds a name the daemon no
\* longer lists
C24_Witness ==
    /\ lastOp.op = "contains"
    /\ calls = <<>>
    /\ result = Return(PyBool(TRUE))
    /\ ~InList(daemon_names, lastOp.item)

\* the claim's frame: the wrapper cache of the directory
Wrappers == <<labels._objects, constructed>>

\* C25 as stated: outside blind mode, collection[name] for a name the
\* refreshed list lacks raises KeyError and leaves the wrapper cache as it
\* was.
C25_AbsentLookupLeavesWrappers ==
    [][(/\ lastOp'.op = "getitem"
        /\ ~blind_mode
        /\ labels'._names_list # PyNone
        /\ ~InList(labels'._names_list.v, lastOp'.item))
       => result' = Raise("KeyError", <<lastOp'.item>>) /\ UNCHANGED Wrappers]_vars

\* C25, amended: outside blind mode, collection[name] for a name the
\* refreshed list lacks raises KeyError and constructs no wrapper; the
\* wrapper cache changes only in that the refresh, when the lookup issues
\* the List call, evicts the wrappers whose names the list no longer holds.
C25_AbsentLookupConstructsNothing ==
    [][(/\ lastOp'.op = "getitem"
        /\ ~blind_mode
        /\ labels'._names_list # PyNone
        /\ ~InList(labels'._names_list.v, lastOp'.item))
       => /\ result' = Raise("KeyError", <<lastOp'.item>>)
          /\ constructed' = constructed
          /\ labels'._objects =
                IF CalledList'
                THEN SelectSeq(labels._objects,
                               LAMBDA e : InList(labels'._names_list.v, e[1]))
                ELSE labels._objects]_vars

\* the lookup of a name never listed raised KeyError after its refresh had
\* evicted the wrapper of a name the daemon dropped
C25_Witness ==
    /\ lastOp.op = "getitem"
    /\ ~blind_mode
    /\ result = Raise("KeyError", <<lastOp.item>>)
    /\ CalledList
    /\ constructed.labels[<<"r">>] > 0
    /\ labels._objects = <<>>

\* C26: get_blind(name) issues no call and returns, whether or not a name
\* list is cached or holds the name; it leaves the name list as it was; it
\* returns the cached wrapper of the name when there is one, and otherwise a
\* new wrapper of that name, which it caches.
C26_GetBlindNeverLists ==
    [][lastOp'.op = "get_blind"
        => /\ calls' = <<>>
           /\ Returned(result')
           /\ labels'._names_list = labels._names_list
           /\ result'.val.name = lastOp'.item
           /\ Cached(labels', lastOp'.item)
           /\ Wrapper(labels', lastOp'.item) = result'.val
           /\ IF Cached(labels, lastOp'.item)
              THEN result'.val = Wrapper(labels, lastOp'.item)
                   /\ UNCHANGED <<labels, constructed>>
              ELSE /\ result'.val.id = constructed.labels[lastOp'.item] + 1
                   /\ \A name \in LabelItems \ {lastOp'.item} :
                        /\ Cached(labels', name) <=> Cached(labels, name)
                        /\ Cached(labels, name)
                              => Wrapper(labels', name) = Wrapper(labels, name)]_vars

\* get_blind returned the second wrapper made of a name that the cached name
\* list lacks
C26_Witness ==
    /\ lastOp.op = "get_blind"
    /\ Returned(result)
    /\ labels._names_list # PyNone
    /\ ~InList(labels._names_list.v, lastOp.item)
    /\ constructed.labels[lastOp.item] = 2
    /\ result.val.id = 2

\* C27: in blind mode collection[name] issues no call and raises nothing: it
\* returns what get_blind(name) returns, the cached wrapper of the name or a
\* new one that it caches, and leaves the name list as it was.
C27_BlindLookupIsGetBlind ==
    [][(lastOp'.op = "getitem" /\ blind_mode)
        => /\ calls' = <<>>
           /\ labels'._names_list = labels._names_list
           /\ result' = Return(IF Cached(labels, lastOp'.item)
                               THEN Wrapper(labels, lastOp'.item)
                               ELSE PyObj(lastOp'.item,
                                          constructed.labels[lastOp'.item] + 1))
           /\ labels'._objects =
                IF Cached(labels, lastOp'.item) THEN labels._objects
                ELSE Append(labels._objects, <<lastOp'.item, result'.val>>)]_vars

\* in blind mode the lookup of a name that the cached name list lacks
\* returned a wrapper
C27_Witness ==
    /\ blind_mode
    /\ lastOp.op = "getitem"
    /\ labels._names_list # PyNone
    /\ ~InList(labels._names_list.v, lastOp.item)
    /\ Returned(result)
    /\ Cached(labels, lastOp.item)

\* C28: clear_cache() of a directory unsets the name list and leaves every
\* cached wrapper in place; clear_cache(invalidate_name=n) unsets the name
\* list and removes the wrapper of n and no other; neither issues a call.
C28_ClearCacheKeepsWrappers ==
    [][lastOp'.op = "coll_clear_cache"
        => /\ calls' = <<>>
           /\ result' = Return(PyNone)
           /\ labels'._names_list = PyNone
           /\ constructed' = constructed
           /\ labels'._objects =
                IF lastOp'.value = PyNone THEN labels._objects
                ELSE SelectSeq(labels._objects, LAMBDA e : e[1] # lastOp'.value.v)]_vars

\* clear_cache(invalidate_name=r) removed the wrapper of r and left that of z
C28_Witness ==
    /\ lastOp.op = "coll_clear_cache"
    /\ lastOp.value = PyStr(<<"r">>)
    /\ constructed.labels[<<"r">>] > 0
    /\ ~Cached(labels, <<"r">>)
    /\ Cached(labels, <<"z">>)
    /\ labels._names_list = PyNone

\* the List call of the last operation was answered with a response that
\* does not end with a line feed
GotUnterminated ==
    /\ CalledList
    /\ history.answer.kind = "return"
    /\ (history.answer.val = <<>>
        \/ history.answer.val[Len(history.answer.val)] # LF)

\* C29: an operation whose List call is answered with a response that does
\* not end with a line feed, the empty response included, raises an error
\* and leaves the name list and the wrapper cache as they were.
C29_UnterminatedListFails ==
    [][GotUnterminated'
        => /\ result'.kind = "raise"
           /\ result'.exc \in {"AssertionError", "IndexError"}
           /\ UNCHANGED <<labels, constructed>>]_vars

\* a forced refresh of a directory with a cached name list and a cached
\* wrapper was answered with a list cut short of its terminator
C29_Witness ==
    /\ lastOp.op = "refresh"
    /\ GotUnterminated
    /\ history.answer.val # <<>>
    /\ result.kind = "raise"
    /\ labels._names_list # PyNone
    /\ labels._objects # <<>>

\* C30: the name list is unset exactly when no List call was answered with a
\* well-formed list since construction or the last clear_cache; a list of no
\* names is a set one: once a refresh was answered with a well-formed list
\* of no names, a non-forced refresh issues no call and changes nothing.
C30_NoNamesIsNotUnset ==
    [][/\ labels'._names_list = PyNone <=> ~history'.refreshed
       /\ (/\ lastOp'.op = "refresh"
           /\ lastOp'.value = PyBool(FALSE)
           /\ labels._names_list = PyList(<<>>))
            => calls' = <<>> /\ UNCHANGED labels]_vars

\* a refresh was answered with a list of no names, and the keys() that
\* followed returned the empty list without a call
C30_Witness ==
    /\ lastOp.op = "keys"
    /\ calls = <<>>
    /\ result = Return(PyList(<<>>))
    /\ history.refreshed
    /\ labels._names_list = PyList(<<>>)

(***************************************************************************)
(* Claims about the bulk pre-fill and the memoized property list.          *)
(***************************************************************************)
\* the operation that ran was a get or is_default whose only call, GetAll,
\* was answered, and a line of the answer failed to decode: the operation
\* raised, and not the AttributeError naming the item that the lookup after
\* a completed pre-fill raises
PrefetchDecodeFailed ==
    /\ lastOp.op \in {"get", "is_default"}
    /\ calls = <<GetAllCall>>
    /\ Returned(history.answer)
    /\ ~Returned(result)
    /\ result # Raise("AttributeError", <<lastOp.item>>)

\* C32: a get or is_default whose bulk pre-fill was answered but failed to
\* decode a line leaves the property cache and the memoized property list
\* as they were before the call.
C32_PrefetchIsAllOrNothing ==
    [][PrefetchDecodeFailed' =>
        /\ _properties_cache' = _properties_cache
        /\ _properties' = _properties]_vars

\* the part of C32 that holds: the memoized property list is as before
C32_FailedPrefetchKeepsList ==
    [][PrefetchDecodeFailed' => _properties' = _properties]_vars

\* a pre-fill failed on its second line and the first line is in the cache
C32_PartialCache ==
    /\ PrefetchDecodeFailed
    /\ DictHas(_properties_cache, <<"a">>)
    /\ ~DictHas(_properties_cache, <<"b">>)
    /\ _properties = PyNone

\* the get that ran fetched a value that decoded as absent
FetchedAbsent ==
    DecodedAbsent(lastOp.op, lastOp.item,
                  [calls |-> calls, answer |-> history.answer, res |-> result, d |-> daemon])

\* the cache records the property as absent
MarkedAbsent(name) ==
    DictHas(_properties_cache, name) /\ DictGet(_properties_cache, name)[2] = AttributeErrorClass

\* C33: with caching enabled, a get that fetched a value decoding as absent
\* leaves the absent marker in the cache under the name, and a second get
\* of the name raises AttributeError again without a transport call.
C33_AbsentIsCached ==
    /\ FetchedAbsent => MarkedAbsent(lastOp.item)
    /\ (lastOp.op = "get" /\ history.again) =>
            calls = <<>> /\ Raised(result, "AttributeError")

\* no entry of the cache ever holds the absent marker
C33_MarkerNeverStored ==
    \A i \in 1..Len(_properties_cache) : _properties_cache[i][2][2] # AttributeErrorClass

\* the second get of a property that decoded as absent issued a Get call
C33_SecondGetCalls ==
    /\ lastOp.op = "get"
    /\ history.again
    /\ calls = <<CallOf("Get", PyStrArg(lastOp.item), NoArg)>>
    /\ result = Raise("AttributeError", <<>>)

\* the pre-fill of the get or is_default that ran raised: its GetAll call
\* failed with an error that is not caught, or a line failed to decode
PrefetchRaised ==
    /\ lastOp.op \in {"get", "is_default"}
    /\ calls = <<GetAllCall>>
    /\ \/ PrefetchDecodeFailed
       \/ ~Returned(history.answer) /\ result = history.answer

\* C34: when a get or is_default of a non-private name has got past its
\* pre-fill with the property list known, the name not in the cache and not
\* in the list, it raised AttributeError naming the property and issued no
\* Get call; and from a pre-fill that stored a non-empty answer until the
\* next clear_cache no operation issues a Get call.
C34_KnownListSparesGet ==
    /\ (/\ lastOp.op \in {"get", "is_default"}
        /\ ~Private(lastOp.item)
        /\ ~PrefetchRaised
        /\ _properties # PyNone
        /\ ~DictHas(_properties_cache, lastOp.item)
        /\ ~InList(_properties.v, lastOp.item))
         => result = Raise("AttributeError", <<lastOp.item>>) /\ ~Issued("Get")
    /\ history.prefetched => ~Issued("Get")

\* after a pre-fill stored a non-empty answer, a later get of a name that
\* is not a property raised AttributeError without a call
C34_Witness ==
    /\ history.prefetched
    /\ lastOp = Op("get", <<"c">>, PyNone)
    /\ calls = <<>>
    /\ result = Raise("AttributeError", <<"c">>)
    /\ _properties = PyList(Props)

(***************************************************************************)
(* Storage: Volume.clone.  A volume is addressed through its owner VM or   *)
(* through its pool; the daemon answers CloneFrom with a token.            *)
(***************************************************************************)
VolumeOf(pool, vid, vm, vm_name) ==
    [_pool |-> pool, _vid |-> vid, _vm |-> vm, _vm_name |-> vm_name]

\* Volume.__init__, storage.py:32-58
VolumeInit(pool, vid, vm, vm_name) ==
    IF pool = PyNone /\ vm = PyNone THEN Raise("ValueError", <<>>)
    ELSE IF pool # PyNone /\ vid = PyNone THEN Raise("ValueError", <<>>)
    ELSE IF vm # PyNone /\ vm_name = PyNone THEN Raise("ValueError", <<>>)
    ELSE Return(VolumeOf(pool, vid, vm, vm_name))

\* the arguments volumes are constructed with
PoolArgs == {PyNone, PyStr(<<"p">>)}
VidArgs == {PyNone, PyStr(<<"v">>), PyStr(<<HIGH>>)}
VmArgs == {PyNone, PyStr(<<"w">>)}
VmNameArgs == {PyNone, PyStr(<<"r">>)}

\* the volumes whose construction returned
Volumes ==
    {VolumeInit(p, v, w, n).val :
        <<p, v, w, n>> \in {a \in PoolArgs \X VidArgs \X VmArgs \X VmNameArgs :
                              Returned(VolumeInit(a[1], a[2], a[3], a[4]))}}

Dom0 == PyStr(<<"d", "o", "m", "0">>)

StorageCall(dest, method, arg, payload) ==
    [dest |-> dest, method |-> method, arg |-> arg, payload |-> payload]

\* Volume._qubesd_call, storage.py:59-85 without a payload stream: the call
\* it hands to app.qubesd_call, or the error it raises before
_qubesd_call(self, func_name, payload) ==
    IF self._vm # PyNone
    THEN Return(StorageCall(self._vm, "admin.vm.volume." \o func_name, self._vm_name,
                            payload))
    ELSE IF self._vid = PyNone THEN Raise("AssertionError", <<>>)
    ELSE IF ~Decodable(self._vid.v) THEN Raise("UnicodeEncodeError", <<>>)
    ELSE Return(StorageCall(Dom0, "admin.pool.volume." \o func_name, self._pool,
                            IF payload # PyNone
                            THEN Bytes(self._vid.v \o <<SP>> \o payload.v)
                            ELSE Bytes(self._vid.v)))

\* the tokens the daemon hands out
Tokens == {<<"t">>, <<"u">>}

\* what app.qubesd_call returns or raises for a call of a volume
VolumeAnswers(func_name) ==
    (IF func_name = "CloneFrom" THEN {Return(t) : t \in Tokens} ELSE {Return(<<>>)})
    \cup {Raise(e, <<>>) : e \in TransportErrors}

\* how an operation on a storage object ended: the calls it issued, what
\* it returned or raised, and what CloneFrom was answered with
Done(cs, r, token) == [calls |-> cs, res |-> r, token |-> token]

\* a clone that sends the same token whatever CloneFrom returned
clone_stale_token(self, source) ==
    LET from == _qubesd_call(source, "CloneFrom", PyNone)
    IN  IF ~Returned(from) THEN {Done(<<>>, from, Nothing)}
        ELSE UNION {
            IF ~Returned(token) THEN {Done(<<from.val>>, token, token)}
            ELSE LET to == _qubesd_call(self, "CloneTo", Bytes(<<"t">>))
                 IN  IF ~Returned(to) THEN {Done(<<from.val>>, to, token)}
                     ELSE {Done(<<from.val, to.val>>,
                                IF Returned(r) THEN Return(PyNone) ELSE r, token) :
                             r \in VolumeAnswers("CloneTo")}
            : token \in VolumeAnswers("CloneFrom")}

\* Volume.clone, storage.py:316-331
clone(self, source) ==
    LET from == _qubesd_call(source, "CloneFrom", PyNone)
    IN  IF ~Returned(from) THEN {Done(<<>>, from, Nothing)}
        ELSE UNION {
            IF ~Returned(token) THEN {Done(<<from.val>>, token, token)}
            ELSE LET to == _qubesd_call(self, "CloneTo", Bytes(token.val))
                 IN  IF ~Returned(to) THEN {Done(<<from.val>>, to, token)}
                     ELSE {Done(<<from.val, to.val>>,
                                IF Returned(r) THEN Return(PyNone) ELSE r, token) :
                             r \in VolumeAnswers("CloneTo")}
            : token \in VolumeAnswers("CloneFrom")}

(***************************************************************************)
(* Storage: Pool.config and the properties read from it.  The daemon holds *)
(* the configuration of the pool; Info serializes it one key=value a line. *)
(***************************************************************************)
DriverKey == <<"d", "r", "i", "v", "e", "r">>
RevisionsKey ==
    <<"r", "e", "v", "i", "s", "i", "o", "n", "s", "_", "t", "o", "_", "k", "e", "e", "p">>
EphemeralKey ==
    <<"e", "p", "h", "e", "m", "e", "r", "a", "l", "_", "v", "o", "l", "a", "t", "i", "l", "e">>
ConfigName == <<"c", "o", "n", "f", "i", "g">>

PoolName == PyStr(<<"p">>)

PoolStates == [revisions_to_keep : 0..MaxInt, ephemeral_volatile : BOOLEAN]

\* the answer of admin.pool.Info
InfoPayload(d) ==
    DriverKey \o <<"=">> \o <<"f", "i", "l", "e">> \o <<LF>>
    \o RevisionsKey \o <<"=">> \o IntToStr(d.revisions_to_keep) \o <<LF>>
    \o EphemeralKey \o <<"=">> \o BoolStr(d.ephemeral_volatile) \o <<LF>>

InfoCall == StorageCall(Dom0, "admin.pool.Info", PoolName, PyNone)

SetRevisionsCall(payload) ==
    StorageCall(Dom0, "admin.pool.Set.revisions_to_keep", PoolName, payload)

SetEphemeralCall(payload) ==
    StorageCall(Dom0, "admin.pool.Set.ephemeral_volatile", PoolName, payload)

\* what app.qubesd_call returns or raises for a call of the pool, with the
\* configuration the daemon holds afterwards: it takes a number of revisions
\* up to MaxInt and a boolean for the ephemeral key
PoolAnswers(d, call) ==
    (IF call = InfoCall THEN {Outcome(Return(InfoPayload(d)), d)}
     ELSE IF /\ call.method = "admin.pool.Set.revisions_to_keep"
             /\ IsDecimal(call.payload.v)
             /\ StrToInt(call.payload.v) <= MaxInt
     THEN {Outcome(Return(<<>>),
                   [d EXCEPT !.revisions_to_keep = StrToInt(call.payload.v)])}
     ELSE IF /\ call.method = "admin.pool.Set.ephemeral_volatile"
             /\ call.payload.v \in {BoolStr(TRUE), BoolStr(FALSE)}
     THEN {Outcome(Return(<<>>),
                   [d EXCEPT !.ephemeral_volatile = call.payload.v = BoolStr(TRUE)])}
     ELSE {})
    \cup {Outcome(Raise(e, <<>>), d) : e \in TransportErrors}

\* the pool and the daemon behind it while an operation runs
PoolMem(config, d) ==
    [config |-> config, d |-> d, calls |-> <<>>, res |-> Running, answer |-> NoCall]

PyDict(d) == [t |-> "dict", v |-> d]

\* dict(l.split('=', 1) for l in lines), storage.py:397-398
RECURSIVE ConfigFrom(_, _)
ConfigFrom(lines, dict) ==
    IF lines = <<>> THEN Return(PyDict(dict))
    ELSE LET pair == Split(lines[1], "=", 1)
         IN  IF Len(pair) # 2 THEN Raise("ValueError", <<>>)
             ELSE ConfigFrom(Tail(lines), DictPut(dict, pair[1], pair[2]))

PoolCalled(M, call, o) ==
    [M EXCEPT !.calls = Append(@, call), !.d = o.d, !.answer = o.res]

\* storage.py:388-398, after the Info call was answered with outcome o
ConfigFetched(M, o) ==
    LET C == PoolCalled(M, InfoCall, o)
        pool_info_data == o.res.val
        parsed == ConfigFrom(SplitLines(Upto(pool_info_data, Len(pool_info_data) - 1)),
                             <<>>)
    IN  IF ~Returned(o.res)
        THEN IF Catches({"QubesDaemonAccessError"}, o.res.exc)
             THEN End(C, PropertyAccessError(ConfigName))
             ELSE End(C, o.res)
        ELSE IF ~Decodable(pool_info_data) THEN End(C, Raise("UnicodeDecodeError", <<>>))
        ELSE IF pool_info_data = <<>> \/ pool_info_data[Len(pool_info_data)] # LF
        THEN End(C, Raise("AssertionError", <<>>))
        ELSE IF ~Returned(parsed) THEN End(C, parsed)
        ELSE End([C EXCEPT !.config = parsed.val], parsed)

\* a config that asks the daemon on every read
config_fresh(M) == {ConfigFetched(M, o) : o \in PoolAnswers(M.d, InfoCall)}

\* Pool.config, storage.py:385-399
config(M) ==
    IF M.config # PyNone THEN {End(M, Return(M.config))}
    ELSE {ConfigFetched(M, o) : o \in PoolAnswers(M.d, InfoCall)}

\* self.config[key]
ConfigItem(M, key) ==
    {IF ~Returned(C.res) THEN C
     ELSE IF ~DictHas(C.res.val.v, key) THEN End(C, Raise("KeyError", <<key>>))
     ELSE End(C, Return(DictGet(C.res.val.v, key))) : C \in config(M)}

\* int(value) of a string
ToInt(value) ==
    IF IsDecimal(value) THEN Return(PyInt(StrToInt(value))) ELSE Raise("ValueError", <<>>)

\* Pool.driver, storage.py:419-422
driver(M) ==
    {IF ~Returned(I.res) THEN I ELSE End(I, Return(PyStr(I.res.val))) :
        I \in ConfigItem(M, DriverKey)}

\* Pool.revisions_to_keep, storage.py:424-427
revisions_to_keep(M) ==
    {IF ~Returned(I.res) THEN I ELSE End(I, ToInt(I.res.val)) :
        I \in ConfigItem(M, RevisionsKey)}

\* Pool.ephemeral_volatile, storage.py:439-443: bool() of the string
ephemeral_volatile(M) ==
    {IF ~Returned(I.res) THEN I ELSE End(I, Return(ParseBoolTruthy(I.res.val))) :
        I \in ConfigItem(M, EphemeralKey)}

\* a setter that leaves the cached configuration in place
PoolSetKept(M, call) ==
    {IF ~Returned(o.res) THEN End(PoolCalled(M, call, o), o.res)
     ELSE End(PoolCalled(M, call, o), Return(PyNone)) :
        o \in PoolAnswers(M.d, call)}

\* storage.py:432-437 and 448-453: the call, then self._config = None
PoolSet(M, call) ==
    {IF ~Returned(o.res) THEN End(PoolCalled(M, call, o), o.res)
     ELSE End([PoolCalled(M, call, o) EXCEPT !.config = PyNone], Return(PyNone)) :
        o \in PoolAnswers(M.d, call)}

\* the revisions_to_keep setter, storage.py:429-437
revisions_to_keep_setter(M, value) == PoolSet(M, SetRevisionsCall(Bytes(Str(value))))

\* the ephemeral_volatile setter, storage.py:445-453
ephemeral_volatile_setter(M, value) == PoolSet(M, SetEphemeralCall(Bytes(Str(value))))

(***************************************************************************)
(* The storage objects: one pool, and volumes cloned one from another.     *)
(***************************************************************************)
PoolReads == {"config", "driver", "revisions_to_keep", "ephemeral_volatile"}

PoolSets == {"revisions_to_keep_setter", "ephemeral_volatile_setter"}

MP0 == PoolMem(_config, pool_info)

\* the operation op on a storage object ends in the memory F
StorageApply(op, value, F, token) ==
    /\ lastOp = Idle
    /\ lastOp' = Op(op, <<>>, value)
    /\ result' = F.res
    /\ calls' = F.calls
    /\ _config' = F.config
    /\ pool_info' = F.d
    /\ history' = [history EXCEPT
                     !.answer = F.answer,
                     !.token = token,
                     !.prev = IF op \in PoolSets /\ Returned(F.res)
                              THEN Prev(op, <<>>, _config # PyNone)
                              ELSE Other,
                     !.after = IF op \in PoolReads THEN history.prev ELSE Other]
    /\ UNCHANGED <<cache_enabled, blind_mode, daemon, daemon_names, _properties_cache,
                   _properties, domains, labels, constructed, _local_properties_set,
                   instance_dict, input>>

Clone(self, source) ==
    \E D \in clone(self, source) :
        StorageApply("clone", [self |-> self, source |-> source],
                     [MP0 EXCEPT !.calls = D.calls, !.res = D.res], D.token)

PoolConfig == \E F \in config(MP0) : StorageApply("config", PyNone, F, Nothing)

PoolDriver == \E F \in driver(MP0) : StorageApply("driver", PyNone, F, Nothing)

PoolRevisionsToKeep ==
    \E F \in revisions_to_keep(MP0) : StorageApply("revisions_to_keep", PyNone, F, Nothing)

PoolEphemeralVolatile ==
    \E F \in ephemeral_volatile(MP0) :
        StorageApply("ephemeral_volatile", PyNone, F, Nothing)

SetRevisionsToKeep(value) ==
    \E F \in revisions_to_keep_setter(MP0, value) :
        StorageApply("revisions_to_keep_setter", value, F, Nothing)

SetEphemeralVolatile(value) ==
    \E F \in ephemeral_volatile_setter(MP0, value) :
        StorageApply("ephemeral_volatile_setter", value, F, Nothing)

\* another client of the daemon changes the configuration of the pool
PoolChange ==
    /\ lastOp = Idle
    /\ pool_info' \in PoolStates \ {pool_info}
    /\ UNCHANGED <<cache_enabled, blind_mode, daemon, daemon_names, _properties_cache,
                   _properties, domains, labels, constructed, _local_properties_set,
                   instance_dict, _config, input, lastOp, result, calls, history>>

\* the values the setters are given
RevisionsValues == {PyInt(n) : n \in 0..MaxInt} \cup {PyStr(<<"w">>)}
EphemeralValues == {PyBool(TRUE), PyBool(FALSE)}

InitStorage ==
    /\ cache_enabled = FALSE
    /\ blind_mode = FALSE
    /\ daemon = [p \in PropNames |-> [dflt |-> TRUE, raw |-> DefaultRaw(p)]]
    /\ daemon_names = <<>>
    /\ _properties_cache = <<>>
    /\ _properties = PyNone
    /\ domains = NoColl
    /\ labels = NoColl
    /\ constructed = NoneMade
    /\ _local_properties_set = NoSets
    /\ instance_dict = NoAttributes
    /\ input = NoInput
    /\ _config = PyNone
    /\ pool_info \in PoolStates
    /\ lastOp = Idle
    /\ result = Running
    /\ calls = <<>>
    /\ history = NoHistory("none")

NextStorage ==
    \/ \E self \in Volumes, source \in Volumes : Clone(self, source)
    \/ PoolConfig
    \/ PoolDriver
    \/ PoolRevisionsToKeep
    \/ PoolEphemeralVolatile
    \/ \E value \in RevisionsValues : SetRevisionsToKeep(value)
    \/ \E value \in EphemeralValues : SetEphemeralVolatile(value)
    \/ PoolChange
    \/ Discard

SpecStorage == InitStorage /\ [][NextStorage]_vars

(***************************************************************************)
(* Claims about the storage objects.                                       *)
(***************************************************************************)
IsCloneFrom(call) ==
    call.method \in {"admin.vm.volume.CloneFrom", "admin.pool.volume.CloneFrom"}

IsCloneTo(call) ==
    call.method \in {"admin.vm.volume.CloneTo", "admin.pool.volume.CloneTo"}

\* the call is sent to the volume: to its owner VM, or to dom0 for its pool
Addressed(call, volume) ==
    IF volume._vm # PyNone
    THEN call.dest = volume._vm /\ call.arg = volume._vm_name
    ELSE call.dest = Dom0 /\ call.arg = volume._pool

\* the payload is the token, behind the volume id for a volume of a pool
CarriesToken(call, volume, token) ==
    IF volume._vm # PyNone THEN call.payload = Bytes(token)
    ELSE call.payload = Bytes(volume._vid.v \o <<SP>> \o token)

\* the CloneFrom call of the clone that ran was issued and returned a token
GotToken == history.token # Nothing /\ Returned(history.token)

\* C35: a clone issues at most two calls: first CloneFrom on the source,
\* then CloneTo on the target; CloneTo is issued only after CloneFrom
\* returned a token, and its payload carries exactly that token; when
\* CloneFrom raised, no CloneTo call is issued.
C35_CloneFromThenCloneTo ==
    lastOp.op = "clone" =>
        /\ Len(calls) <= 2
        /\ calls # <<>> =>
              IsCloneFrom(calls[1]) /\ Addressed(calls[1], lastOp.value.source)
        /\ Len(calls) = 2 =>
              /\ IsCloneTo(calls[2])
              /\ Addressed(calls[2], lastOp.value.self)
              /\ GotToken
              /\ CarriesToken(calls[2], lastOp.value.self, history.token.val)
        /\ ~GotToken => \A i \in 1..Len(calls) : ~IsCloneTo(calls[i])

\* a clone into a volume of a pool returned: CloneFrom was answered with the
\* token "u" and CloneTo sent it behind the volume id
C35_Witness ==
    /\ lastOp.op = "clone"
    /\ lastOp.value.self._vm = PyNone
    /\ lastOp.value.source._vm # PyNone
    /\ history.token = Return(<<"u">>)
    /\ Len(calls) = 2
    /\ calls[2].payload = Bytes(<<"v", SP, "u">>)
    /\ result = Return(PyNone)

\* a clone whose CloneFrom call raised
C35_FailedWitness ==
    /\ lastOp.op = "clone"
    /\ Len(calls) = 1
    /\ history.token.kind = "raise"
    /\ result = history.token

\* the configuration the daemon holds, as the dictionary of strings a read
\* caches
ConfigOf(d) ==
    PyDict(<< <<DriverKey, <<"f", "i", "l", "e">> >>,
              <<RevisionsKey, IntToStr(d.revisions_to_keep)>>,
              <<EphemeralKey, BoolStr(d.ephemeral_volatile)>> >>)

\* C36: a read of config, driver, revisions_to_keep or ephemeral_volatile
\* issues one admin.pool.Info call when no configuration is cached, and
\* caches what the call returned; it issues no call and leaves the cached
\* configuration alone when one is cached.  A set of revisions_to_keep or
\* ephemeral_volatile issues one call; when it returns the cached
\* configuration is dropped, so the next read issues a fresh Info call;
\* when it raises the cached configuration is left in place.
C36_ConfigCachedUntilSet ==
    [][/\ lastOp'.op \in PoolReads =>
            IF _config # PyNone
            THEN calls' = <<>> /\ _config' = _config /\ ~Raised(result', "QubesPropertyAccessError")
            ELSE /\ calls' = <<InfoCall>>
                 /\ IF Returned(history'.answer)
                    THEN _config' = ConfigOf(pool_info)
                    ELSE _config' = PyNone
       /\ lastOp'.op \in PoolSets =>
            /\ Len(calls') = 1
            /\ IF Returned(result') THEN _config' = PyNone ELSE _config' = _config
       /\ (lastOp'.op \in PoolReads /\ history'.after.op \in PoolSets) =>
            calls' = <<InfoCall>>]_vars

\* a set of revisions_to_keep returned while a configuration was cached, and
\* the read of revisions_to_keep that followed issued Info and returned the
\* new number
C36_Witness ==
    /\ lastOp.op = "revisions_to_keep"
    /\ history.after.op = "revisions_to_keep_setter"
    /\ history.after.cached
    /\ calls = <<InfoCall>>
    /\ result = Return(PyInt(1))
    /\ _config # PyNone

\* a set raised and left the cached configuration in place
C36_FailedSetWitness ==
    /\ lastOp.op \in PoolSets
    /\ ~Returned(result)
    /\ _config # PyNone

(***************************************************************************)
(* qvm-check.  The parser hands main a namespace: the names asked for, or  *)
(* all_domains with the names to exclude, and the status flags.  The       *)
(* directory of domains is the directory of the model (field lab of the    *)
(* memory) over the daemon's daemon_names.  What the daemon knows of the   *)
(* domains is given by facts: passing, for each status flag the names of   *)
(* the domains its check holds for, and admin, the names of the AdminVMs.  *)
(* Logging (args.verbose) has no part in the return code and is left out.  *)
(***************************************************************************)
Statuses == <<"running", "paused", "template", "networked">>

Namespace(all_domains, exclude, vmnames, flags) ==
    [all_domains |-> all_domains, exclude |-> exclude, vmnames |-> vmnames,
     flags |-> flags]

Parsed(doms, invalid) == [domains |-> doms, invalid_domains |-> invalid]

\* qvm_check.py:64-68, the loop over the names from vmnames on
RECURSIVE NamesLoop(_, _, _, _)
NamesLoop(M, vmnames, doms, invalid) ==
    IF vmnames = <<>> THEN {End(M, Return(Parsed(doms, invalid)))}
    ELSE UNION {
        IF Returned(G.res)
        THEN NamesLoop([G EXCEPT !.res = Running], Tail(vmnames),
                       Append(doms, G.res.val), invalid)
        ELSE IF Catches({"KeyError"}, G.res.exc)
        THEN NamesLoop([G EXCEPT !.res = Running], Tail(vmnames), doms,
                       Append(invalid, vmnames[1]))
        ELSE {G}
        : G \in __getitem__(M, vmnames[1], daemon_names)}

\* QvmCheckVmNameAction.parse_qubes_app, qvm_check.py:46-68
parse_qubes_app(M, args, facts) ==
    IF args.all_domains
    THEN {IF ~Returned(V.res) THEN V
          ELSE End(V, Return(Parsed(
                    SelectSeq(V.res.val.v,
                              LAMBDA vm : vm.name \notin facts.admin
                                          /\ ~InList(args.exclude, vm.name)),
                    <<>>))) :
            V \in values(M, daemon_names)}
    ELSE IF args.exclude # <<>> THEN {End(M, Raise("SystemExit", <<>>))}
    ELSE NamesLoop(M, args.vmnames, <<>>, <<>>)

\* get_filters, qvm_check.py:112-127: the statuses of the filters, in order
get_filters(args) == SelectSeq(Statuses, LAMBDA status : status \in args.flags)

Elements(seq) == {seq[i] : i \in 1..Len(seq)}

\* qvm_check.py:142-148, the domains every filter from filters on holds for
RECURSIVE Filtered(_, _, _, _)
Filtered(filtered_domains, args_domains, filters, facts) ==
    IF filters = <<>> THEN filtered_domains
    ELSE Filtered(filtered_domains
                    \cap {vm \in Elements(args_domains) : vm.name \in facts.passing[filters[1]]},
                  args_domains, Tail(filters), facts)

\* a return code that takes no account of the names not found
ReturnCodeLenient(args_domains, invalid_domains, filters, facts) ==
    LET filtered_domains == Filtered(Elements(args_domains), args_domains, filters, facts)
    IN  IF filters # <<>>
        THEN IF Elements(args_domains) \cap filtered_domains # Elements(args_domains)
             THEN IF filtered_domains = {} THEN 1 ELSE 3
             ELSE 0
        ELSE IF args_domains = <<>> THEN 1 ELSE 0

\* qvm_check.py:132-170, the return code
ReturnCode(args_domains, invalid_domains, filters, facts) ==
    LET filtered_domains == Filtered(Elements(args_domains), args_domains, filters, facts)
        return_code ==
            IF filters # <<>>
            THEN IF Elements(args_domains) \cap filtered_domains # Elements(args_domains)
                 THEN IF filtered_domains = {} THEN 1 ELSE 3
                 ELSE 0
            ELSE IF args_domains = <<>> THEN 1 ELSE 0
    IN  IF Elements(invalid_domains) # {} THEN 1 ELSE return_code

\* main, qvm_check.py:130-170
main(M, args, facts) ==
    {IF ~Returned(P.res) THEN P
     ELSE End(P, Return(PyInt(ReturnCode(P.res.val.domains, P.res.val.invalid_domains,
                                         get_filters(args), facts)))) :
        P \in parse_qubes_app(M, args, facts)}

\* status flags given in one run of the model
MaxFlags == 2

\* the names asked for: none, or some of a name the daemon may list and one
\* it never lists
AskedNames ==
    {<<>>} \cup {<<n>> : n \in Asked}
    \cup {<<n, m>> : <<n, m>> \in {p \in Asked \X Asked : p[1] # p[2]}}

FlagSets == {f \in SUBSET Elements(Statuses) : Cardinality(f) <= MaxFlags}

CheckArgs ==
    {Namespace(FALSE, <<>>, vmnames, flags) : vmnames \in AskedNames, flags \in FlagSets}
    \cup {Namespace(FALSE, <<(<<"r">>)>>, <<(<<"r">>)>>, {})}
    \cup {Namespace(TRUE, exclude, <<>>, {}) : exclude \in {<<>>, <<(<<"r">>)>>}}

\* the domains the check of a status flag holds for: none, one, all
PassingSets == {{}, {<<"r">>}, LabelNames}

\* what the daemon knows of the domains, as far as the run looks at it
FactsFor(args) ==
    {[passing |-> p, admin |-> a] :
        p \in [args.flags -> PassingSets],
        a \in IF args.all_domains THEN {{}, {<<"g">>}} ELSE {{}}}

Main(args, facts) ==
    Apply("main", <<>>, [args |-> args, facts |-> facts], main(M0, args, facts))

InitCheck ==
    /\ cache_enabled = FALSE
    /\ blind_mode \in BOOLEAN
    /\ daemon = [p \in PropNames |-> [dflt |-> TRUE, raw |-> DefaultRaw(p)]]
    /\ daemon_names \in NameLists
    /\ _properties_cache = <<>>
    /\ _properties = PyNone
    /\ domains = NoColl
    /\ labels = NoColl
    /\ constructed = NoneMade
    /\ _local_properties_set = OneConstructed
    /\ instance_dict = NoAttributes
    /\ input = NoInput
    /\ _config = PyNone
    /\ pool_info = Nothing
    /\ lastOp = Idle
    /\ result = Running
    /\ calls = <<>>
    /\ history = NoHistory("none")

NextCheck ==
    \/ \E args \in CheckArgs : \E facts \in FactsFor(args) : Main(args, facts)
    \/ NamesChange
    \/ Discard

SpecCheck == InitCheck /\ [][NextCheck]_vars

(***************************************************************************)
(* Claims about qvm-check.                                                 *)
(***************************************************************************)
\* main ran for names asked for and returned a code
RanForNames ==
    /\ lastOp.op = "main"
    /\ ~lastOp.value.args.all_domains
    /\ Returned(result)

Requested == lastOp.value.args.vmnames

\* the directory lists the name
Exists(name) == labels._names_list # PyNone /\ InList(labels._names_list.v, name)

AllExist == \A i \in 1..Len(Requested) : Exists(Requested[i])

C31_ZeroWitness ==
    /\ RanForNames
    /\ ~blind_mode
    /\ Requested = <<(<<"r">>)>>
    /\ lastOp.value.args.flags = {}
    /\ result = Return(PyInt(0))

\* in blind mode main returned 0 for a name the directory does not list
C31_BlindZero ==
    /\ RanForNames
    /\ blind_mode
    /\ Requested = <<(<<"z">>)>>
    /\ lastOp.value.args.flags = {}
    /\ result = Return(PyInt(0))

=============================================================================
